---- MODULE Spec2Model ----
(***************************************************************************)
(* Verification model of nano-banana-cli (nanban): the generate command's  *)
(* orchestration, the selector resolution helpers of gemini-automation,    *)
(* the authentication detector and the output path helper.                 *)
(*                                                                         *)
(* The module holds several specifications over one set of variables.      *)
(* Each specification drives one component and leaves the variables of     *)
(* the other components at their idle values:                              *)
(*   SpecPath     getMultiOutputPath (utils/paths)                         *)
(*   SpecAuth     isAuthRequired (browser/auth-detector)                   *)
(*   SpecResolve  queryVisible / typePrompt / clickFirstVisible /          *)
(*                initiateImageCreation (browser/gemini-automation)        *)
(*   Spec         the generate command (commands/generate)                 *)
(*   SpecSess     launchBrowser / relaunchBrowser (browser/session-manager)*)
(*   SpecSig      the signal handlers (utils/cleanup)                      *)
(*   SpecAttempt  the steps of one attempt (commands/generate)             *)
(*   SpecDownload downloadImage / waitForDownloadedFile                    *)
(*   SpecTier     ensureProModel (browser/gemini-automation)               *)
(*   SpecType     typePrompt (browser/gemini-automation)                   *)
(*   SpecWait     waitForWindowClose (browser/auth-recovery)               *)
(***************************************************************************)
EXTENDS Integers, Sequences, FiniteSets, TLC

VARIABLES
    \* ---- utils/paths: one call of getMultiOutputPath
    pPc, pBase, pIndex, pTotal, pResult,
    \* ---- browser/auth-detector: one call of isAuthRequired
    aPc,        \* "idle", "start", "probe", "done"
    aUrl,       \* what page.url() yields: a URL, or UrlFault when it throws
    aIdx,       \* 0 before any DOM probe, else the index of the selector probed next
    aVisible,   \* TRUE once a probed sign-in element was found visible
    aLast,      \* what the last DOM probe observed
    aResult,    \* once aPc = "done", the value returned: TRUE is auth required
    aFaulted,   \* TRUE once page.url(), page.$ or boundingBox has thrown
    \* ---- browser/gemini-automation: one call of typePrompt's input
    \* resolution, of initiateImageCreation or of triggerGeneration
    rOp,        \* the function called
    rPage,      \* the page: what each selector's first match is like
    rPc,        \* position in the function
    rIdx,       \* index of the selector the loop is at
    rHandle,    \* 0 for null, else the index of the selector whose match is held
    rWaited,    \* the selectors waited on, in order
    rElapsed,   \* milliseconds spent in visibility waits that timed out
    rSkipped,   \* indices of the candidates skipped as disabled
    rClicks,    \* indices of the candidates a click was issued on, in order
    rCfv,       \* clickFirstVisible: "none", "true", "false", "raised"
    rEnter,     \* number of Enter key presses
    rOutcome,   \* "none", "returned", "SelectorError", "raised"
    rError,     \* the description a SelectorError carries
    \* ---- commands/generate: one run of the generate command
    gPc,          \* position in run()
    gPrompt,      \* args.prompt
    gCount,       \* count, as parsed from args.count
    gDebug,       \* args.debug
    gHeaded,      \* args.headed
    gBase,        \* basePath
    gSession,     \* session: 0 for null, else the id of the session held
    gLive,        \* ids of the sessions whose browser process is running
    gRegistry,    \* activeSessions of utils/cleanup
    gPages,       \* indices of the attempts whose secondary page is open
    gI,           \* 1-based index of the attempt a loop is at
    gStep,        \* index of the step of that attempt to run next
    gStarted,     \* generationStarted, by 1-based attempt index
    gSaved,       \* savedPaths
    gSavedIdx,    \* the attempt that produced each entry of savedPaths
    gSubmitRun,   \* attempts whose submission was started, in order
    gSubmitFailed,\* attempts whose submission raised
    gWaitRun,     \* attempts whose wait/capture was started, in order
    gWait,        \* timing of the last result wait
    gShown,       \* errors shown with showError
    gErr,         \* the error caught by the catch block of run(), or "none"
    gExitCode,    \* process.exitCode
    gKeep,        \* keepBrowserOpenForDebug
    gAggregated,  \* TRUE once the test of savedPaths.length was reached
    gExit,        \* -1 while the process runs, else its exit status
    gNav,         \* the page met by navigateToGemini (line 182) and its result
    gRecovery,    \* the relaunches and waits of the auth recovery, in order
    \* ---- browser/session-manager: launchBrowser, relaunchBrowser, close
    sOp,          \* the call in progress, or "none"
    sPc,          \* position in that call
    sHome,        \* homedir()
    sCur,         \* the session the caller holds: 0 for none, else its id
    sLive,        \* ids of the browser processes that are running
    sDirs,        \* userDataDir of each browser launched, by id
    sHeadless,    \* options.headless of the last call
    sNew,         \* id of the browser the current or last call started, or 0
    sNavigateTo,  \* navigateTo of the relaunch in progress, or "none"
    sTrace,       \* what the current or last relaunch has done, in order
    sClose,       \* the last call of close: session, processes before, result
    sCloseCalls,  \* how many times close was called on the session held
    sResult,      \* how the last call ended: "none", "returned" or "raised"
    sLoggedIn,    \* the profile directories that hold a signed-in state
    sClass,       \* classification of the page last loaded at the application
                  \* address, "none" before any and after a sign-in
    \* ---- utils/cleanup: the signal handlers
    cActive,      \* activeSessions, as the set of the ids in it
    cBrowser,     \* each session: "unlaunched", "open", "closing", "closed", "failed"
    cCloseCalls,  \* how many times cleanup has called close on each session
    cHandlers,    \* the calls of handleSignal: position and sessions awaited
    cCleanups,    \* how many times cleanup was called
    cFirst,       \* the sessions in activeSessions when the first signal came
    cExit,        \* -1 while the process runs, else its exit status
    \* ---- commands/generate: the workflow of one attempt on its page
    tPc,          \* "ready", "pending", "hung", "captured" or "failed"
    tStep,        \* index in ATTEMPT_STEPS of the step to run, or running
    tTrace,       \* the steps that have settled, each with its result
    tWait,        \* the timing of the result wait, NoWait before it
    tWatchdog,    \* TRUE while the watchdog timer is set
    tErr,         \* what ended the attempt, "none" otherwise
    \* ---- browser/gemini-automation: one call of downloadImage
    dPc,          \* the statement downloadImage is at, "returned" or "raised"
    dOutput,      \* outputPath, as <<directory, file name>>
    dOutHolds,    \* what the output path holds: "none", "stale" or a file name
    dTemp,        \* the private directory: "none", "exists" or "removed"
    dDir,         \* the files of the private directory, each with its mtime
    dBefore,      \* beforeFiles: the names seen before the download click
    dRouted,      \* TRUE once the browser downloads into the private directory
    dClock,       \* the file system clock, one tick per file written
    dPolls,       \* how many times waitForDownloadedFile has slept
    dSeen,        \* the listing of its last readdir
    dPicked,      \* the name waitForDownloadedFile returned, <<>> before
    dResult,      \* what downloadImage returned, <<>> before
    dErr,         \* what downloadImage raised, "none" otherwise
    dReveal,      \* hoverToRevealDownload before it: "none", "hovered",
                  \* "noImage" or "throws"
    dImage,       \* the image downloadImage located itself: "none", "image",
                  \* "null" or "throws"
    \* ---- browser/gemini-automation: one call of ensureProModel
    mPc,          \* "detect", "chip", "option", "returned" or "raised"
    mPage,        \* the visible, enabled buttons of the page
    mCurrent,     \* what getCurrentModelChip returned, "none" before
    mOpened,      \* the answer of clickModelChip, "none" before
    mSwitched,    \* the answer of clickModelOptionInOpenMenu, "none" before
    mClicks,      \* the clicks made on the page, in order
    mErr,         \* what ensureProModel raised, "none" otherwise
    \* ---- browser/gemini-automation: typePrompt once its input is resolved
    ePc,          \* "click", "evaluate", "keyboard", "returned" or "raised"
    eKind,        \* the resolved element: "contentEditable", "valueInput", "plain"
    eContent,     \* what the input holds
    ePrompt,      \* the caller's prompt
    eSelectAll,   \* whether Control+A selects the content on this platform
    eCalls,       \* how many calls have returned normally
    eFallback,    \* TRUE once a call has gone through the keyboard fallback
    \* browser/auth-recovery: waitForWindowClose and the callers around it
    wPc,          \* position of the caller
    wCaller,      \* "auth" (commands/auth) or "generate" (the recovery)
    wConnected,   \* the visible browser is connected
    wClosedAt,    \* the position at which its window was closed, or "never"
    wSignedIn,    \* the user has signed in in the window
    wListener,    \* the once("disconnected") listener is attached
    wKeepAlive,   \* the keepAlive interval is set
    wTicks,       \* firings of the interval, modulo MaxTicks
    wResolved     \* the promise of waitForWindowClose is resolved

pathVars == <<pPc, pBase, pIndex, pTotal, pResult>>
authVars == <<aPc, aUrl, aIdx, aVisible, aLast, aResult, aFaulted>>

resolveVars == <<rOp, rPage, rPc, rIdx, rHandle, rWaited, rElapsed, rSkipped,
                 rClicks, rCfv, rEnter, rOutcome, rError>>

genVars == <<gPc, gPrompt, gCount, gDebug, gHeaded, gBase, gSession, gLive,
             gRegistry, gPages, gI, gStep, gStarted, gSaved, gSavedIdx, gSubmitRun,
             gSubmitFailed, gWaitRun, gWait, gShown, gErr, gExitCode, gKeep,
             gAggregated, gExit, gNav, gRecovery>>

sessVars == <<sOp, sPc, sHome, sCur, sLive, sDirs, sHeadless, sNew, sNavigateTo,
              sTrace, sClose, sCloseCalls, sResult, sLoggedIn, sClass>>

sigVars == <<cActive, cBrowser, cCloseCalls, cHandlers, cCleanups, cFirst, cExit>>

attemptVars == <<tPc, tStep, tTrace, tWait, tWatchdog, tErr>>

downloadVars == <<dPc, dOutput, dOutHolds, dTemp, dDir, dBefore, dRouted, dClock, dPolls, dSeen, dPicked, dResult, dErr, dReveal,
                  dImage>>

tierVars == <<mPc, mPage, mCurrent, mOpened, mSwitched, mClicks, mErr>>

typeVars == <<ePc, eKind, eContent, ePrompt, eSelectAll, eCalls, eFallback>>

waitVars == <<wPc, wCaller, wConnected, wClosedAt, wSignedIn, wListener, wKeepAlive, wTicks, wResolved>>

vars == <<pathVars, authVars, resolveVars, genVars, sessVars, sigVars,
          attemptVars, downloadVars, tierVars, typeVars, waitVars>>

\* What each component's actions leave unchanged.
exceptPath == <<authVars, resolveVars, genVars, sessVars, sigVars,
                attemptVars, downloadVars, tierVars, typeVars, waitVars>>
exceptAuth == <<pathVars, resolveVars, genVars, sessVars, sigVars,
                attemptVars, downloadVars, tierVars, typeVars, waitVars>>
exceptResolve == <<pathVars, authVars, genVars, sessVars, sigVars,
                   attemptVars, downloadVars, tierVars, typeVars, waitVars>>
exceptGen == <<pathVars, authVars, resolveVars, sessVars, sigVars,
               attemptVars, downloadVars, tierVars, typeVars, waitVars>>
exceptSess == <<pathVars, authVars, resolveVars, genVars, sigVars,
                attemptVars, downloadVars, tierVars, typeVars, waitVars>>
exceptSig == <<pathVars, authVars, resolveVars, genVars, sessVars,
               attemptVars, downloadVars, tierVars, typeVars, waitVars>>
exceptAttempt == <<pathVars, authVars, resolveVars, genVars, sessVars,
                   sigVars, downloadVars, tierVars, typeVars, waitVars>>
exceptDownload == <<pathVars, authVars, resolveVars, genVars, sessVars,
                    sigVars, attemptVars, tierVars, typeVars, waitVars>>
exceptTier == <<pathVars, authVars, resolveVars, genVars, sessVars,
                sigVars, attemptVars, downloadVars, typeVars, waitVars>>
exceptType == <<pathVars, authVars, resolveVars, genVars, sessVars,
                sigVars, attemptVars, downloadVars, tierVars, waitVars>>
exceptWait == <<pathVars, authVars, resolveVars, genVars, sessVars,
                sigVars, attemptVars, downloadVars, tierVars, typeVars>>

(***************************************************************************)
(* The idle values of each component: what its variables hold under the    *)
(* specifications that do not drive it.                                    *)
(***************************************************************************)
PathIdle ==
    /\ pPc = "idle" /\ pBase = <<>> /\ pIndex = 1 /\ pTotal = 1 /\ pResult = <<>>

AuthIdle ==
    /\ aPc = "idle" /\ aUrl = <<>> /\ aIdx = 0 /\ aVisible = FALSE
    /\ aLast = "none" /\ aResult = FALSE /\ aFaulted = FALSE

ResolveIdle ==
    /\ rOp = "none" /\ rPage = <<>> /\ rPc = "idle" /\ rIdx = 0 /\ rHandle = 0
    /\ rWaited = <<>> /\ rElapsed = 0 /\ rSkipped = {} /\ rClicks = <<>>
    /\ rCfv = "none" /\ rEnter = 0 /\ rOutcome = "none" /\ rError = "none"

NoWait == [entered |-> FALSE, urlWait |-> 0, image |-> "never", at |-> 0,
           settledAt |-> 0]

NoNav == [called |-> FALSE, gotoOk |-> FALSE, auth |-> FALSE, shell |-> FALSE,
          result |-> "none", waitedShell |-> FALSE]

GenIdle ==
    /\ gPc = "idle" /\ gPrompt = <<>> /\ gCount = 1 /\ gDebug = FALSE
    /\ gHeaded = FALSE /\ gBase = <<>> /\ gSession = 0 /\ gLive = {}
    /\ gRegistry = <<>> /\ gPages = {} /\ gI = 0 /\ gStep = 0 /\ gStarted = <<>>
    /\ gSaved = <<>> /\ gSavedIdx = <<>> /\ gSubmitRun = <<>> /\ gSubmitFailed = {}
    /\ gWaitRun = <<>> /\ gWait = NoWait /\ gShown = {} /\ gErr = "none"
    /\ gExitCode = 0 /\ gKeep = FALSE /\ gAggregated = FALSE /\ gExit = -1
    /\ gNav = NoNav /\ gRecovery = <<>>

NoClose == [session |-> 0, before |-> {}, answer |-> "none", result |-> "none"]

SessIdle ==
    /\ sOp = "none" /\ sPc = "idle" /\ sHome = "" /\ sCur = 0 /\ sLive = {}
    /\ sDirs = <<>> /\ sHeadless = TRUE /\ sNew = 0 /\ sNavigateTo = "none"
    /\ sTrace = <<>> /\ sClose = NoClose /\ sCloseCalls = 0
    /\ sResult = "none" /\ sLoggedIn = {} /\ sClass = "none"

SigIdle ==
    /\ cActive = {} /\ cBrowser = <<>> /\ cCloseCalls = <<>> /\ cHandlers = <<>>
    /\ cCleanups = 0 /\ cFirst = {} /\ cExit = -1

AttemptIdle ==
    /\ tPc = "idle" /\ tStep = 0 /\ tTrace = <<>> /\ tWait = NoWait
    /\ tWatchdog = FALSE /\ tErr = "none"

DownloadIdle ==
    /\ dPc = "idle" /\ dOutput = <<>> /\ dOutHolds = "none" /\ dTemp = "none"
    /\ dDir = {} /\ dBefore = {} /\ dRouted = FALSE /\ dClock = 0 /\ dPolls = 0
    /\ dSeen = {} /\ dPicked = <<>> /\ dResult = <<>> /\ dErr = "none"
    /\ dReveal = "none" /\ dImage = "none"

TierIdle ==
    /\ mPc = "idle" /\ mPage = {} /\ mCurrent = "none" /\ mOpened = "none"
    /\ mSwitched = "none" /\ mClicks = <<>> /\ mErr = "none"

TypeIdle ==
    /\ ePc = "idle" /\ eKind = "none" /\ eContent = <<>> /\ ePrompt = <<>>
    /\ eSelectAll = TRUE /\ eCalls = 0 /\ eFallback = FALSE

WaitIdle ==
    /\ wPc = "idle" /\ wCaller = "none" /\ wConnected = FALSE
    /\ wClosedAt = "never" /\ wSignedIn = FALSE /\ wListener = FALSE
    /\ wKeepAlive = FALSE /\ wTicks = 0 /\ wResolved = FALSE

IdleExceptPath ==
    AuthIdle /\ ResolveIdle /\ GenIdle /\ SessIdle /\ SigIdle
    /\ AttemptIdle /\ DownloadIdle /\ TierIdle /\ TypeIdle /\ WaitIdle
IdleExceptAuth ==
    PathIdle /\ ResolveIdle /\ GenIdle /\ SessIdle /\ SigIdle
    /\ AttemptIdle /\ DownloadIdle /\ TierIdle /\ TypeIdle /\ WaitIdle
IdleExceptResolve ==
    PathIdle /\ AuthIdle /\ GenIdle /\ SessIdle /\ SigIdle /\ AttemptIdle
    /\ DownloadIdle /\ TierIdle /\ TypeIdle /\ WaitIdle
IdleExceptGen ==
    PathIdle /\ AuthIdle /\ ResolveIdle /\ SessIdle /\ SigIdle
    /\ AttemptIdle /\ DownloadIdle /\ TierIdle /\ TypeIdle /\ WaitIdle
IdleExceptSess ==
    PathIdle /\ AuthIdle /\ ResolveIdle /\ GenIdle /\ SigIdle
    /\ AttemptIdle /\ DownloadIdle /\ TierIdle /\ TypeIdle /\ WaitIdle
IdleExceptSig ==
    PathIdle /\ AuthIdle /\ ResolveIdle /\ GenIdle /\ SessIdle
    /\ AttemptIdle /\ DownloadIdle /\ TierIdle /\ TypeIdle /\ WaitIdle
IdleExceptAttempt ==
    PathIdle /\ AuthIdle /\ ResolveIdle /\ GenIdle /\ SessIdle /\ SigIdle
    /\ DownloadIdle /\ TierIdle /\ TypeIdle /\ WaitIdle
IdleExceptDownload ==
    PathIdle /\ AuthIdle /\ ResolveIdle /\ GenIdle /\ SessIdle /\ SigIdle
    /\ AttemptIdle /\ TierIdle /\ TypeIdle /\ WaitIdle
IdleExceptTier ==
    PathIdle /\ AuthIdle /\ ResolveIdle /\ GenIdle /\ SessIdle /\ SigIdle
    /\ AttemptIdle /\ DownloadIdle /\ TypeIdle /\ WaitIdle
IdleExceptType ==
    PathIdle /\ AuthIdle /\ ResolveIdle /\ GenIdle /\ SessIdle /\ SigIdle
    /\ AttemptIdle /\ DownloadIdle /\ TierIdle /\ WaitIdle
IdleExceptWait ==
    PathIdle /\ AuthIdle /\ ResolveIdle /\ GenIdle /\ SessIdle /\ SigIdle
    /\ AttemptIdle /\ DownloadIdle /\ TierIdle /\ TypeIdle

(***************************************************************************)
(* Bounds of the model.                                                    *)
(***************************************************************************)
MaxPathLen == 4
MaxCount == 3
MaxUrlLen == 4
MaxBaseLen == 2
MaxLaunches == 3
MaxCloses == 2
MaxSessions == 2
MaxSignals == 2
MaxPolls == 2
MaxFiles == 3
MaxChips == 2
MaxTypeCalls == 2
MaxTextLen == 2
MaxTicks == 4

(***************************************************************************)
(* Strings are sequences of one-character strings, so that parsing and     *)
(* formatting of paths are computed and not assumed.                       *)
(***************************************************************************)
PathChars == {"a", ".", "/"}

RECURSIVE SeqsUpTo(_, _)
SeqsUpTo(S, n) ==
    IF n = 0 THEN {<<>>}
    ELSE LET shorter == SeqsUpTo(S, n - 1)
         IN  shorter \cup {Append(s, c) : s \in {t \in shorter : Len(t) = n - 1}, c \in S}

\* s.slice(from, to) of JavaScript, 0-based, to exclusive.
Slice(s, from, to) == IF to <= from THEN <<>> ELSE SubSeq(s, from + 1, to)

DigitChar(d) == <<"0", "1", "2", "3", "4", "5", "6", "7", "8", "9">>[d + 1]

\* `${index}` for a non-negative integer: its decimal digits.
RECURSIVE NumberToString(_)
NumberToString(n) ==
    IF n < 10 THEN <<DigitChar(n)>>
    ELSE Append(NumberToString(n \div 10), DigitChar(n % 10))

(***************************************************************************)
(* path.parse (posix), as getMultiOutputPath calls it.  The scan runs from *)
(* the end of the path; indices are 0-based as in the library.             *)
(***************************************************************************)
RECURSIVE ParseScan(_, _, _, _)
ParseScan(path, i, start, st) ==
    IF i < start THEN st
    ELSE
      LET code == path[i + 1] IN
      IF code = "/" THEN
           IF ~st.matchedSlash THEN [st EXCEPT !.startPart = i + 1]
           ELSE ParseScan(path, i - 1, start, st)
      ELSE
        LET st1 == IF st.end = -1
                   THEN [st EXCEPT !.matchedSlash = FALSE, !.end = i + 1]
                   ELSE st
            st2 == IF code = "."
                   THEN IF st1.startDot = -1 THEN [st1 EXCEPT !.startDot = i]
                        ELSE IF st1.preDotState # 1 THEN [st1 EXCEPT !.preDotState = 1]
                        ELSE st1
                   ELSE IF st1.startDot # -1 THEN [st1 EXCEPT !.preDotState = -1]
                   ELSE st1
        IN ParseScan(path, i - 1, start, st2)

parse(path) ==
    IF Len(path) = 0
    THEN [root |-> <<>>, dir |-> <<>>, base |-> <<>>, ext |-> <<>>, name |-> <<>>]
    ELSE
      LET isAbsolute == path[1] = "/"
          start == IF isAbsolute THEN 1 ELSE 0
          st == ParseScan(path, Len(path) - 1, start,
                          [startDot |-> -1, startPart |-> 0, end |-> -1,
                           matchedSlash |-> TRUE, preDotState |-> 0])
          from == IF st.startPart = 0 /\ isAbsolute THEN 1 ELSE st.startPart
          noExt == \/ st.startDot = -1
                   \/ st.preDotState = 0
                   \/ (st.preDotState = 1 /\ st.startDot = st.end - 1
                       /\ st.startDot = st.startPart + 1)
      IN [root |-> IF isAbsolute THEN <<"/">> ELSE <<>>,
          dir  |-> IF st.startPart > 0 THEN Slice(path, 0, st.startPart - 1)
                   ELSE IF isAbsolute THEN <<"/">> ELSE <<>>,
          base |-> IF st.end = -1 THEN <<>> ELSE Slice(path, from, st.end),
          name |-> IF st.end = -1 THEN <<>>
                   ELSE IF noExt THEN Slice(path, from, st.end)
                   ELSE Slice(path, from, st.startDot),
          ext  |-> IF st.end = -1 \/ noExt THEN <<>>
                   ELSE Slice(path, st.startDot, st.end)]

\* path.format (posix); an undefined or empty base is rebuilt from name and ext.
format(p) ==
    LET dir == IF p.dir # <<>> THEN p.dir ELSE p.root
        base == IF p.base # <<>> THEN p.base ELSE p.name \o p.ext
    IN IF dir = <<>> THEN base
       ELSE IF dir = p.root THEN dir \o base
       ELSE dir \o <<"/">> \o base

getMultiOutputPath_NoExtCheck(basePath, index, total) ==
    IF total = 1 THEN basePath
    ELSE LET parsed == parse(basePath)
         IN format([parsed EXCEPT !.base = <<>>,
                                   !.name = parsed.name \o <<"-">> \o NumberToString(index)])

getMultiOutputPath_IgnoresIndex(basePath, index, total) ==
    IF total = 1 THEN basePath
    ELSE LET parsed == parse(basePath)
         IN IF parsed.ext = <<>> THEN basePath \o <<"-">> \o NumberToString(total)
            ELSE format([parsed EXCEPT !.base = <<>>,
                                      !.name = parsed.name \o <<"-">> \o NumberToString(total)])

getMultiOutputPath(basePath, index, total) ==
    IF total = 1 THEN basePath
    ELSE LET parsed == parse(basePath)
         IN IF parsed.ext = <<>> THEN basePath \o <<"-">> \o NumberToString(index)
            ELSE format([parsed EXCEPT !.base = <<>>,
                                      !.name = parsed.name \o <<"-">> \o NumberToString(index)])

(***************************************************************************)
(* browser/auth-detector.  A URL is a sequence of the pieces the detector  *)
(* tells apart, so that String.includes and String.startsWith are computed *)
(* on it.                                                                  *)
(***************************************************************************)
UrlPieces ==
    {"https://", "gemini.google.com", "accounts.google.com",
     "/app", "/signin", "/auth", "/v3/signin", "?x"}

UrlFault == <<"page.url() throws">>

GEMINI_APP_URL == <<"https://", "gemini.google.com", "/app">>

AUTH_URL_PATTERNS ==
    << <<"accounts.google.com">>,
       <<"gemini.google.com", "/signin">>,
       <<"gemini.google.com", "/auth">>,
       <<"accounts.google.com", "/v3/signin">> >>

AUTH_DOM_SELECTORS ==
    << "input[type=email][name=identifier]",
       "[aria-label*=Sign in i]",
       "[aria-label*=authentication i]",
       "[aria-label*=Google Account i]",
       "[data-identifier]" >>

startsWith(s, prefix) ==
    /\ Len(prefix) <= Len(s)
    /\ SubSeq(s, 1, Len(prefix)) = prefix

includes(s, sub) ==
    \E k \in 0..(Len(s) - Len(sub)) : SubSeq(s, k + 1, k + Len(sub)) = sub

\* What the driver can answer to page.$(selector) and handle.boundingBox().
QueryAnswers == {"throws", "null", "handle"}
\* boundingBox() throws, yields null, or yields a box.
BoxAnswers ==
    [kind : {"throws", "null"}, width : {0}, height : {0}]
        \cup [kind : {"box"}, width : {0, 10}, height : {0, 10}]

isVisible(box) == box.kind # "null" /\ box.width > 0 /\ box.height > 0

\* A throw of the driver taken for a visible element.
ProbeFindsVisible_FaultIsVisible(q, box) ==
    \/ q = "throws"
    \/ q = "handle" /\ (box.kind = "throws" \/ isVisible(box))

\* One pass of the loop body of hasVisibleAuthElement: TRUE when it returns
\* true, FALSE when it goes on to the next selector (a throw is caught).
ProbeFindsVisible(q, box) ==
    /\ q = "handle"
    /\ box.kind # "throws"
    /\ isVisible(box)

\* The URL part of isAuthRequired: "required", "authenticated", or "probe"
\* when the decision is left to the DOM probe.
UrlDecision_AppFirst(url) ==
    IF startsWith(url, GEMINI_APP_URL) THEN "authenticated"
    ELSE IF \E k \in 1..Len(AUTH_URL_PATTERNS) : includes(url, AUTH_URL_PATTERNS[k])
    THEN "required"
    ELSE "probe"

UrlDecision(url) ==
    IF \E k \in 1..Len(AUTH_URL_PATTERNS) : includes(url, AUTH_URL_PATTERNS[k])
    THEN "required"
    ELSE IF startsWith(url, GEMINI_APP_URL) THEN "authenticated"
    ELSE "probe"

InitAuth ==
    /\ IdleExceptAuth
    /\ aPc = "start"
    /\ aUrl \in SeqsUpTo(UrlPieces, MaxUrlLen) \cup {UrlFault}
    /\ aIdx = 0
    /\ aVisible = FALSE
    /\ aLast = "none"
    /\ aResult = FALSE
    /\ aFaulted = FALSE

\* page.url() throws: the outer catch returns false.
AuthUrlThrows ==
    /\ aPc = "start"
    /\ aUrl = UrlFault
    /\ aResult' = FALSE
    /\ aFaulted' = TRUE
    /\ aPc' = "done"
    /\ UNCHANGED <<aUrl, aIdx, aVisible, aLast>>
    /\ UNCHANGED exceptAuth

\* The URL decides: a sign-in pattern, or else the application address.
AuthUrlDecides ==
    /\ aPc = "start"
    /\ aUrl # UrlFault
    /\ UrlDecision(aUrl) # "probe"
    /\ aResult' = (UrlDecision(aUrl) = "required")
    /\ aPc' = "done"
    /\ UNCHANGED <<aUrl, aIdx, aVisible, aLast, aFaulted>>
    /\ UNCHANGED exceptAuth

\* Neither: hasVisibleAuthElement is called.
AuthBeginProbe ==
    /\ aPc = "start"
    /\ aUrl # UrlFault
    /\ UrlDecision(aUrl) = "probe"
    /\ aPc' = "probe"
    /\ aIdx' = 1
    /\ UNCHANGED <<aUrl, aVisible, aLast, aResult, aFaulted>>
    /\ UNCHANGED exceptAuth

\* One selector of AUTH_DOM_SELECTORS is probed.
AuthProbeSelector ==
    /\ aPc = "probe"
    /\ aIdx <= Len(AUTH_DOM_SELECTORS)
    /\ \E q \in QueryAnswers, box \in BoxAnswers :
         /\ aLast' = IF q = "handle" THEN box.kind ELSE q
         /\ aFaulted' = (aFaulted \/ q = "throws"
                                  \/ (q = "handle" /\ box.kind = "throws"))
         /\ IF ProbeFindsVisible(q, box)
            THEN /\ aVisible' = TRUE
                 /\ aResult' = TRUE
                 /\ aPc' = "done"
                 /\ aIdx' = aIdx
            ELSE /\ aIdx' = aIdx + 1
                 /\ UNCHANGED <<aVisible, aResult, aPc>>
    /\ UNCHANGED aUrl
    /\ UNCHANGED exceptAuth

\* Every selector was probed and none was visible.
AuthProbeExhausted ==
    /\ aPc = "probe"
    /\ aIdx > Len(AUTH_DOM_SELECTORS)
    /\ aResult' = FALSE
    /\ aPc' = "done"
    /\ UNCHANGED <<aUrl, aIdx, aVisible, aLast, aFaulted>>
    /\ UNCHANGED exceptAuth

NextAuth ==
    \/ AuthUrlThrows
    \/ AuthUrlDecides
    \/ AuthBeginProbe
    \/ AuthProbeSelector
    \/ AuthProbeExhausted

SpecAuth == InitAuth /\ [][NextAuth]_vars

\* C10: isAuthRequired follows the ordered decision: auth required when the
\* address contains a sign-in pattern; otherwise authenticated, with no DOM
\* probe at all, when the address starts with the application address;
\* otherwise auth required exactly when a probed sign-in element is visible.
C10_OrderedDecision ==
    (aPc = "done" /\ aUrl # UrlFault) =>
        IF \E k \in 1..Len(AUTH_URL_PATTERNS) : includes(aUrl, AUTH_URL_PATTERNS[k])
        THEN aResult = TRUE /\ aIdx = 0
        ELSE IF startsWith(aUrl, GEMINI_APP_URL)
        THEN aResult = FALSE /\ aIdx = 0
        ELSE /\ aResult = aVisible
             /\ aResult = FALSE => aIdx = Len(AUTH_DOM_SELECTORS) + 1

\* C10 witness: an address that starts with the application address and
\* contains an account-provider pattern was classified auth required.
C10_Witness ==
    /\ aPc = "done"
    /\ aUrl = <<"https://", "gemini.google.com", "/app", "accounts.google.com">>
    /\ aResult = TRUE

\* C11 as stated: whenever reading the address or probing the DOM has
\* thrown, isAuthRequired returns false.
C11_AsStated ==
    (aPc = "done" /\ aFaulted) => aResult = FALSE

\* C11: isAuthRequired ends with a boolean whatever throws; when reading
\* the address throws it returns false; a throw while a selector is probed
\* counts as that selector not visible, so the result is true only when a
\* selector probed without a throw gave a box of non-zero size, and false
\* when every selector after the throw is absent, hidden or throws too.
C11_FaultTolerant ==
    /\ aPc \in {"start", "probe", "done"}
    /\ aResult \in BOOLEAN
    /\ (aPc = "done" /\ aFaulted) =>
        /\ aUrl = UrlFault => (aResult = FALSE /\ aIdx = 0)
        /\ aResult = TRUE => (aUrl # UrlFault /\ aLast = "box" /\ aVisible)
        /\ aResult = FALSE => (aUrl = UrlFault \/ aIdx = Len(AUTH_DOM_SELECTORS) + 1)

\* Every selector was probed, the last probe threw, the answer is false.
C11_Witness ==
    /\ aPc = "done" /\ aFaulted /\ aResult = FALSE
    /\ aUrl # UrlFault
    /\ aLast = "throws"
    /\ aIdx = Len(AUTH_DOM_SELECTORS) + 1


(***************************************************************************)
(* browser/gemini-automation: selector resolution.  The page gives, for    *)
(* each selector, what its first match is like while the function runs.    *)
(***************************************************************************)
SHORT_WAIT_TIMEOUT == 2000

TYPE_PROMPT_SELECTORS ==
    << "div[role=textbox][aria-label=Enter a prompt for Gemini]",
       "div[role=textbox]",
       ".ql-editor[role=textbox]",
       ".ql-editor" >>

CREATE_IMAGE_ACTIVE == "[aria-label*=Deselect Create image i]"

CREATE_IMAGE_SELECTORS ==
    << "button[aria-label*=Create image i]",
       "[role=button][aria-label*=Create image i]",
       "a[aria-label*=Create image i]",
       "[aria-label*=Create image i]" >>

SUBMIT_SELECTORS ==
    << "button[aria-label*=Send i]",
       "button[aria-label*=Generate i]",
       "button[aria-label*=Submit i]",
       "button[type=submit]" >>

\* absent: no match.  hidden: a match that is not displayed.  zeroSize: a
\* displayed match of no size.  throws: the wait fails with another error.
\* detached: visible during the wait, gone when queried.  collapsed: visible
\* during the wait, of no size when measured.  visible: visible throughout.
ElementKinds ==
    {"absent", "hidden", "zeroSize", "throws", "detached", "collapsed", "visible"}

\* page.waitForSelector(selector, {visible: true, timeout})
WaitForSelector(kind) ==
    CASE kind \in {"absent", "hidden", "zeroSize"} -> "timeout"
      [] kind = "throws" -> "throws"
      [] OTHER -> "ok"

\* page.$(selector)
QuerySelector(kind) == IF kind \in {"absent", "detached"} THEN "null" ELSE "handle"

\* handle.boundingBox()
BoundingBox(kind) ==
    CASE kind = "visible" -> [kind |-> "box", width |-> 10, height |-> 10]
      [] kind \in {"collapsed", "zeroSize"} -> [kind |-> "box", width |-> 0, height |-> 0]
      [] OTHER -> [kind |-> "null", width |-> 0, height |-> 0]

\* queryVisible: TRUE when it returns the handle, FALSE when it returns null.
queryVisible_NoSizeCheck(kind) ==
    IF WaitForSelector(kind) # "ok" THEN FALSE
    ELSE QuerySelector(kind) # "null"

queryVisible(kind) ==
    IF WaitForSelector(kind) # "ok" THEN FALSE
    ELSE IF QuerySelector(kind) = "null" THEN FALSE
    ELSE isVisible(BoundingBox(kind))

\* Time a call of queryVisible spends waiting when its wait times out.
WaitCost(kind, timeout) == IF WaitForSelector(kind) = "timeout" THEN timeout ELSE 0

\* What typePrompt does once its loop over the selectors has ended.
AfterPromptLoop_NoThrow(input) == "resolved"

AfterPromptLoop(input) == IF input = 0 THEN "SelectorError" ELSE "resolved"

Range(f) == {f[k] : k \in DOMAIN f}

SelectorsOf(op) ==
    CASE op = "typePrompt" -> TYPE_PROMPT_SELECTORS
      [] op = "initiateImageCreation" -> CREATE_IMAGE_SELECTORS
      [] op = "triggerGeneration" -> SUBMIT_SELECTORS

PageSelectors(op) ==
    Range(SelectorsOf(op))
        \cup (IF op = "initiateImageCreation" THEN {CREATE_IMAGE_ACTIVE} ELSE {})

InitResolve ==
    /\ IdleExceptResolve
    /\ rOp \in {"typePrompt", "initiateImageCreation", "triggerGeneration"}
    /\ rPage \in [PageSelectors(rOp) -> ElementKinds]
    /\ rPc = CASE rOp = "typePrompt" -> "tp_loop"
               [] rOp = "initiateImageCreation" -> "ic_active"
               [] rOp = "triggerGeneration" -> "cfv_loop"
    /\ rIdx = 1
    /\ rHandle = 0
    /\ rWaited = <<>>
    /\ rElapsed = 0
    /\ rSkipped = {}
    /\ rClicks = <<>>
    /\ rCfv = "none"
    /\ rEnter = 0
    /\ rOutcome = "none"
    /\ rError = "none"

\* typePrompt: one pass of the loop, queryVisible on the selector at rIdx;
\* a handle breaks the loop.
PromptQuery ==
    /\ rPc = "tp_loop"
    /\ rIdx <= Len(TYPE_PROMPT_SELECTORS)
    /\ LET sel == TYPE_PROMPT_SELECTORS[rIdx] IN
         /\ rWaited' = Append(rWaited, sel)
         /\ rElapsed' = rElapsed + WaitCost(rPage[sel], SHORT_WAIT_TIMEOUT)
         /\ IF queryVisible(rPage[sel])
            THEN rHandle' = rIdx /\ rPc' = "tp_end" /\ rIdx' = rIdx
            ELSE rHandle' = 0 /\ rPc' = "tp_loop" /\ rIdx' = rIdx + 1
    /\ UNCHANGED <<rOp, rPage, rSkipped, rClicks, rCfv, rEnter, rOutcome, rError>>
    /\ UNCHANGED exceptResolve

\* typePrompt: the list is exhausted.
PromptExhausted ==
    /\ rPc = "tp_loop"
    /\ rIdx > Len(TYPE_PROMPT_SELECTORS)
    /\ rPc' = "tp_end"
    /\ UNCHANGED <<rOp, rPage, rIdx, rHandle, rWaited, rElapsed, rSkipped, rClicks,
                   rCfv, rEnter, rOutcome, rError>>
    /\ UNCHANGED exceptResolve

\* typePrompt: after the loop, no input raises SelectorError.
PromptAfterLoop ==
    /\ rPc = "tp_end"
    /\ rOutcome' = AfterPromptLoop(rHandle)
    /\ rError' = IF AfterPromptLoop(rHandle) = "SelectorError"
                 THEN "Gemini prompt input field" ELSE rError
    /\ rPc' = "done"
    /\ UNCHANGED <<rOp, rPage, rIdx, rHandle, rWaited, rElapsed, rSkipped, rClicks,
                   rCfv, rEnter>>
    /\ UNCHANGED exceptResolve

\* initiateImageCreation: the creation-mode-active signal is probed first;
\* when it is visible the function returns without a click.
InitiateProbeActive ==
    /\ rPc = "ic_active"
    /\ rWaited' = Append(rWaited, CREATE_IMAGE_ACTIVE)
    /\ rElapsed' = rElapsed + WaitCost(rPage[CREATE_IMAGE_ACTIVE], SHORT_WAIT_TIMEOUT)
    /\ IF queryVisible(rPage[CREATE_IMAGE_ACTIVE])
       THEN rOutcome' = "returned" /\ rPc' = "done"
       ELSE rOutcome' = rOutcome /\ rPc' = "cfv_loop"
    /\ UNCHANGED <<rOp, rPage, rIdx, rHandle, rSkipped, rClicks, rCfv, rEnter, rError>>
    /\ UNCHANGED exceptResolve

DisabledAnswers == {"enabled", "disabled", "ariaDisabled", "throws"}
ClickAnswers == {"ok", "throws", "hangs"}

\* The value of button.disabled || aria-disabled === "true".
ReportsDisabled(answer) == answer \in {"disabled", "ariaDisabled"}

\* clickFirstVisible: queryVisible on the selector at rIdx; null continues.
CfvQuery ==
    /\ rPc = "cfv_loop"
    /\ rIdx <= Len(SelectorsOf(rOp))
    /\ LET sel == SelectorsOf(rOp)[rIdx] IN
         /\ rWaited' = Append(rWaited, sel)
         /\ rElapsed' = rElapsed + WaitCost(rPage[sel], SHORT_WAIT_TIMEOUT)
         /\ IF queryVisible(rPage[sel])
            THEN rHandle' = rIdx /\ rPc' = "cfv_eval" /\ rIdx' = rIdx
            ELSE rHandle' = 0 /\ rPc' = "cfv_loop" /\ rIdx' = rIdx + 1
    /\ UNCHANGED <<rOp, rPage, rSkipped, rClicks, rCfv, rEnter, rOutcome, rError>>
    /\ UNCHANGED exceptResolve

\* clickFirstVisible: candidate.evaluate reads the disabled state.  The call
\* is outside the try block: when it throws, clickFirstVisible throws.
CfvEvaluate ==
    /\ rPc = "cfv_eval"
    /\ \E answer \in DisabledAnswers :
         IF answer = "throws"
         THEN /\ rCfv' = "raised" /\ rPc' = "cfv_ret"
              /\ UNCHANGED <<rIdx, rHandle, rSkipped>>
         ELSE IF ReportsDisabled(answer)
         THEN /\ rSkipped' = rSkipped \cup {rIdx}
              /\ rIdx' = rIdx + 1 /\ rHandle' = 0 /\ rPc' = "cfv_loop"
              /\ UNCHANGED rCfv
         ELSE /\ rPc' = "cfv_click"
              /\ UNCHANGED <<rIdx, rHandle, rSkipped, rCfv>>
    /\ UNCHANGED <<rOp, rPage, rWaited, rElapsed, rClicks, rEnter, rOutcome, rError>>
    /\ UNCHANGED exceptResolve

\* clickFirstVisible: the click under withTimeout, inside the try block; a
\* click that throws or outlasts clickTimeout continues with the next selector.
CfvClick ==
    /\ rPc = "cfv_click"
    /\ rClicks' = Append(rClicks, rIdx)
    /\ \E answer \in ClickAnswers :
         IF answer = "ok"
         THEN rCfv' = "true" /\ rPc' = "cfv_ret" /\ UNCHANGED <<rIdx, rHandle>>
         ELSE rCfv' = rCfv /\ rPc' = "cfv_loop" /\ rIdx' = rIdx + 1 /\ rHandle' = 0
    /\ UNCHANGED <<rOp, rPage, rWaited, rElapsed, rSkipped, rEnter, rOutcome, rError>>
    /\ UNCHANGED exceptResolve

\* clickFirstVisible: the list is exhausted, return false.
CfvExhausted ==
    /\ rPc = "cfv_loop"
    /\ rIdx > Len(SelectorsOf(rOp))
    /\ rCfv' = "false"
    /\ rPc' = "cfv_ret"
    /\ UNCHANGED <<rOp, rPage, rIdx, rHandle, rWaited, rElapsed, rSkipped, rClicks,
                   rEnter, rOutcome, rError>>
    /\ UNCHANGED exceptResolve

\* initiateImageCreation after clickFirstVisible: not clicked raises
\* SelectorError; an exception of clickFirstVisible propagates.
InitiateAfterClick ==
    /\ rPc = "cfv_ret"
    /\ rOp = "initiateImageCreation"
    /\ rOutcome' = CASE rCfv = "true" -> "returned"
                     [] rCfv = "false" -> "SelectorError"
                     [] OTHER -> "raised"
    /\ rError' = IF rCfv = "false" THEN "Gemini image creation entry point" ELSE rError
    /\ rPc' = "done"
    /\ UNCHANGED <<rOp, rPage, rIdx, rHandle, rWaited, rElapsed, rSkipped, rClicks,
                   rCfv, rEnter>>
    /\ UNCHANGED exceptResolve

\* triggerGeneration after clickFirstVisible: not clicked presses Enter; an
\* exception of clickFirstVisible propagates.
TriggerAfterClick ==
    /\ rPc = "cfv_ret"
    /\ rOp = "triggerGeneration"
    /\ rEnter' = IF rCfv = "false" THEN rEnter + 1 ELSE rEnter
    /\ rOutcome' = IF rCfv = "raised" THEN "raised" ELSE "returned"
    /\ rPc' = "done"
    /\ UNCHANGED <<rOp, rPage, rIdx, rHandle, rWaited, rElapsed, rSkipped, rClicks,
                   rCfv, rError>>
    /\ UNCHANGED exceptResolve

NextResolve ==
    \/ PromptQuery
    \/ PromptExhausted
    \/ PromptAfterLoop
    \/ InitiateProbeActive
    \/ CfvQuery
    \/ CfvEvaluate
    \/ CfvClick
    \/ CfvExhausted
    \/ InitiateAfterClick
    \/ TriggerAfterClick

SpecResolve == InitResolve /\ [][NextResolve]_vars

\* Every call runs to its end: each step is taken once it is enabled.
FairSpecResolve == SpecResolve /\ WF_vars(NextResolve)

(***************************************************************************)
(* SpecPath: one call of getMultiOutputPath on an arbitrary base path.     *)
(***************************************************************************)
InitPath ==
    /\ IdleExceptPath
    /\ pPc = "call"
    /\ pBase \in SeqsUpTo(PathChars, MaxPathLen)
    /\ pIndex \in 1..MaxCount
    /\ pTotal \in 1..MaxCount
    /\ pResult = <<>>

CallGetMultiOutputPath ==
    /\ pPc = "call"
    /\ pResult' = getMultiOutputPath(pBase, pIndex, pTotal)
    /\ pPc' = "ret"
    /\ UNCHANGED <<pBase, pIndex, pTotal>>
    /\ UNCHANGED exceptPath

NextPath == CallGetMultiOutputPath

SpecPath == InitPath /\ [][NextPath]_vars

(***************************************************************************)
(* C6.  Reference reading of "base with -i inserted immediately before the *)
(* extension, appended at the end when base has no extension": the         *)
(* extension is the one path.parse reports, found where it lies in base    *)
(* (before any trailing separators).                                       *)
(***************************************************************************)
RECURSIVE StripTrailingSlashes(_)
StripTrailingSlashes(s) ==
    IF Len(s) > 0 /\ s[Len(s)] = "/" THEN StripTrailingSlashes(Slice(s, 0, Len(s) - 1))
    ELSE s

InsertBeforeExt(base, index) ==
    LET ext == parse(base).ext
        pos == Len(StripTrailingSlashes(base)) - Len(ext)
        suffix == <<"-">> \o NumberToString(index)
    IN IF ext = <<>> THEN base \o suffix
       ELSE Slice(base, 0, pos) \o suffix \o Slice(base, pos, Len(base))

InjectiveAcrossIndices ==
    \A j \in 1..MaxCount :
        getMultiOutputPath(pBase, j, pTotal) = pResult => j = pIndex

\* C6 as stated: for total = 1 the result is base for every index; for
\* total > 1 it is base with "-index" inserted immediately before the
\* extension (appended when there is none), and distinct indices give
\* distinct paths.
C6_AsStated ==
    pPc = "ret" =>
        /\ pTotal = 1 => pResult = pBase
        /\ pTotal > 1 => /\ pResult = InsertBeforeExt(pBase, pIndex)
                         /\ InjectiveAcrossIndices

\* C6 amended: for total = 1 the result is base for every index; for
\* total > 1 and a base without extension it is base with "-index" appended;
\* for total > 1 and a base with an extension it is path.format(path.parse(base))
\* with "-index" inserted immediately before the extension, which is base
\* itself with "-index" inserted whenever parse and format reproduce base;
\* for fixed base and total > 1 distinct indices give distinct paths.
C6_MultiOutputPath ==
    pPc = "ret" =>
        /\ pTotal = 1 => pResult = pBase
        /\ pTotal > 1 =>
            /\ parse(pBase).ext = <<>> => pResult = InsertBeforeExt(pBase, pIndex)
            /\ parse(pBase).ext # <<>> =>
                 /\ pResult = InsertBeforeExt(format(parse(pBase)), pIndex)
                 /\ format(parse(pBase)) = pBase => pResult = InsertBeforeExt(pBase, pIndex)
            /\ InjectiveAcrossIndices

\* C6 witness: a call with total > 1 on a base with an extension returned the
\* base with the index inserted before the extension.
C6_Witness ==
    /\ pPc = "ret" /\ pTotal = 3 /\ pIndex = 2
    /\ pBase = <<"a", "/", "a", ".">>
    /\ pResult = <<"a", "/", "a", "-", "2", ".">>

(***************************************************************************)
(* C7, C8, C9: selector resolution.                                        *)
(***************************************************************************)
\* Index of the first selector of the list whose match is visible with a
\* non-zero size on the page, 0 when there is none.
FirstSatisfiable(selectors) ==
    LET hits == {k \in 1..Len(selectors) : rPage[selectors[k]] = "visible"}
    IN IF hits = {} THEN 0 ELSE CHOOSE k \in hits : \A j \in hits : k <= j

NoDuplicates(seq) == \A i, j \in 1..Len(seq) : seq[i] = seq[j] => i = j

\* C7: typePrompt ends its resolution holding the match of the first
\* selector, in declared order, whose element is visible with non-zero size;
\* the selectors before it (absent, hidden, zero-sized, raising, gone or
\* collapsed when measured) were each tried once and skipped without an
\* error, and no selector after it was tried.
C7_FirstVisibleInOrder ==
    (rOp = "typePrompt" /\ rPc = "done") =>
        LET first == FirstSatisfiable(TYPE_PROMPT_SELECTORS) IN
          /\ rHandle = first
          /\ first > 0 =>
               /\ rOutcome = "resolved"
               /\ rWaited = SubSeq(TYPE_PROMPT_SELECTORS, 1, first)
          /\ first = 0 => rWaited = TYPE_PROMPT_SELECTORS

\* C7 witness: the first selector's match collapsed when measured, the
\* second and the third are visible, and the second one's match is held.
C7_Witness ==
    /\ rOp = "typePrompt" /\ rPc = "done"
    /\ rPage[TYPE_PROMPT_SELECTORS[1]] = "collapsed"
    /\ rPage[TYPE_PROMPT_SELECTORS[2]] = "visible"
    /\ rPage[TYPE_PROMPT_SELECTORS[3]] = "visible"
    /\ rHandle = 2
    /\ rOutcome = "resolved"

Unsatisfiable ==
    /\ rOp \in {"typePrompt", "initiateImageCreation"}
    /\ \A sel \in PageSelectors(rOp) : rPage[sel] # "visible"

TargetDescription ==
    IF rOp = "typePrompt" THEN "Gemini prompt input field"
    ELSE "Gemini image creation entry point"

\* C8: when no selector of a required target (the prompt input of
\* typePrompt, the entry point of initiateImageCreation) is satisfiable, the
\* call never holds an element or returns normally, and it ends by raising
\* SelectorError naming the target, having waited on no selector twice and
\* no longer than one visibility timeout per selector waited on.
C8_UnsatisfiableRaises ==
    /\ [](Unsatisfiable =>
            /\ rHandle = 0
            /\ rOutcome \in {"none", "SelectorError"}
            /\ NoDuplicates(rWaited)
            /\ rElapsed <= Len(rWaited) * SHORT_WAIT_TIMEOUT)
    /\ (Unsatisfiable ~>
            (rPc = "done" /\ rOutcome = "SelectorError" /\ rError = TargetDescription))

\* C8 witness: initiateImageCreation on a page where nothing matches raised
\* SelectorError after timing out once on each selector it consulted.
C8_Witness ==
    /\ rOp = "initiateImageCreation" /\ rPc = "done"
    /\ \A sel \in PageSelectors(rOp) : rPage[sel] = "absent"
    /\ rOutcome = "SelectorError"
    /\ rError = "Gemini image creation entry point"
    /\ rWaited = <<CREATE_IMAGE_ACTIVE>> \o CREATE_IMAGE_SELECTORS
    /\ rElapsed = 5 * SHORT_WAIT_TIMEOUT

\* C9 as stated: clickFirstVisible never raises; it returns true exactly
\* when its last click, on a candidate not reported disabled, succeeded, and
\* it never clicks a candidate that reported disabled or aria-disabled.
C9_ClickNeverRaises ==
    /\ rCfv # "raised"
    /\ rCfv = "true" => (rClicks # <<>> /\ rClicks[Len(rClicks)] = rHandle)
    /\ \A k \in 1..Len(rClicks) : rClicks[k] \notin rSkipped

\* C31: triggerGeneration never raises without having pressed Enter:
\* when no submit control was clicked Enter is pressed exactly once, and
\* when one was clicked Enter is not pressed.
C31_FallbackBeforeRaise ==
    (rOp = "triggerGeneration" /\ rPc = "done") =>
        /\ rOutcome = "raised" => rEnter = 1
        /\ rCfv # "true" => rEnter = 1
        /\ rCfv = "true" => rEnter = 0

\* C34: initiateImageCreation makes no click and returns when the
\* creation-mode-active signal is visible; otherwise it clicks an entry
\* control exactly once and returns, or raises SelectorError.
C34_IdempotentEntry ==
    (rOp = "initiateImageCreation" /\ rPc = "done") =>
        IF queryVisible(rPage[CREATE_IMAGE_ACTIVE])
        THEN rClicks = <<>> /\ rOutcome = "returned"
        ELSE \/ rOutcome = "returned" /\ Len(rClicks) = 1
             \/ rOutcome = "SelectorError"

\* ---------------------------------------------------------------------
\* commands/generate: one run of `nanban generate`.
\* ---------------------------------------------------------------------

GENERATION_TIMEOUT == 300000
AppUrlWaitTimeout == 30000

\* The watchdog as short as the result wait.
generationGuardTimeoutMs_AsShortAsWait == GENERATION_TIMEOUT

generationGuardTimeoutMs == 360000

Prompts == {<<>>, <<" ">>, <<"p">>}
BasePaths == SeqsUpTo({"a", "."}, MaxBaseLen)

\* prompt.trim().length === 0
IsBlank(prompt) == \A k \in 1..Len(prompt) : prompt[k] = " "

Max(a, b) == IF a >= b THEN a ELSE b

\* A line of showError: the attempt it names (0 for the command as a
\* whole), where it was raised, and the message of the error.
Shown(index, stage, message) ==
    [index |-> index, stage |-> stage, message |-> message]

\* activeSessions.filter((s) => s !== session)
unregisterSession(registry, session) ==
    LET Keep(id) == id # session IN SelectSeq(registry, Keep)

\* The steps of an attempt, in the order the code awaits them.
SUBMIT_STEPS == <<"navigateToGemini", "startNewChat", "initiateImageCreation",
                  "typePrompt", "triggerGeneration">>
FINISH_STEPS == <<"waitForGeneration", "hoverToRevealDownload", "downloadImage">>
SINGLE_STEPS == <<"startNewChat", "initiateImageCreation", "typePrompt",
                  "triggerGeneration">> \o FINISH_STEPS

\* What each page operation can raise.  startNewChat catches everything
\* it does; waitForGeneration is settled by the timing of the page.
StepErrors(step) ==
    CASE step = "navigateToGemini"      -> {"Error", "SelectorError"}
      [] step = "startNewChat"          -> {}
      [] step = "initiateImageCreation" -> {"Error", "SelectorError"}
      [] step = "typePrompt"            -> {"Error", "SelectorError"}
      [] step = "triggerGeneration"     -> {"Error"}
      [] step = "hoverToRevealDownload" -> {"Error"}
      [] step = "downloadImage"         -> {"Error", "SelectorError", "DownloadError"}
      [] OTHER                          -> {}

\* How long the wait for the conversation address takes: none when the
\* address already matches, else until it settles or the wait times out.
UrlWaits == {0, 10000, AppUrlWaitTimeout}

\* What the page does about the result image, and when (milliseconds
\* after the wait was called).
ImageFates ==
    {[image |-> "never", at |-> 0]}
    \cup [image : {"visible", "fault"}, at : {60000, 320000}]

\* waitForGeneration: when it settles and with what.
waitForGeneration(urlWait, fate) ==
    LET deadline == urlWait + GENERATION_TIMEOUT
        at == Max(urlWait, fate.at)
    IN  IF fate.image = "visible" /\ at <= deadline
        THEN [at |-> at, result |-> "ok"]
        ELSE IF fate.image = "fault" /\ at <= deadline
        THEN [at |-> at, result |-> "GenerationTimeoutError"]
        ELSE [at |-> deadline, result |-> "GenerationTimeoutError"]

\* waitForGenerationWithWatchdog: the race of the wait with the watchdog
\* timer; the settlements it can have.
waitForGenerationWithWatchdog(urlWait, fate) ==
    LET inner == waitForGeneration(urlWait, fate)
        watchdog == [at |-> generationGuardTimeoutMs,
                     result |-> "Generation watchdog timeout"]
    IN  (IF inner.at <= generationGuardTimeoutMs THEN {inner} ELSE {})
        \cup (IF generationGuardTimeoutMs <= inner.at THEN {watchdog} ELSE {})

\* Every attempt is given the output path of the first attempt.
imagePath_SameForAll(base, index, count) ==
    IF count = 1 THEN base ELSE getMultiOutputPath(base, 1, count)

\* imagePaths[index - 1], and basePath itself for a single image.
imagePath(base, index, count) ==
    IF count = 1 THEN base ELSE getMultiOutputPath(base, index, count)

genArgs == <<gPrompt, gCount, gDebug, gHeaded, gBase>>
genBrowser == <<gSession, gLive, gRegistry, gPages>>
genLoop == <<gI, gStep>>
genAttempts == <<gStarted, gSaved, gSavedIdx, gSubmitRun, gSubmitFailed,
                 gWaitRun, gWait>>
genPrelude == <<gNav, gRecovery>>

InitGen ==
    /\ IdleExceptGen
    /\ gPc = "validate"
    /\ gPrompt \in Prompts
    /\ gCount \in 0..MaxCount
    /\ gDebug \in BOOLEAN
    /\ gHeaded \in BOOLEAN
    /\ gBase \in BasePaths
    /\ gSession = 0 /\ gLive = {} /\ gRegistry = <<>> /\ gPages = {}
    /\ gI = 0 /\ gStep = 0 /\ gStarted = <<>>
    /\ gSaved = <<>> /\ gSavedIdx = <<>> /\ gSubmitRun = <<>> /\ gSubmitFailed = {}
    /\ gWaitRun = <<>> /\ gWait = NoWait /\ gShown = {} /\ gErr = "none"
    /\ gExitCode = 0 /\ gKeep = FALSE /\ gAggregated = FALSE /\ gExit = -1
    /\ gNav = NoNav /\ gRecovery = <<>>

\* exitWithError: showError, then process.exit(1).
ExitWithError(message) ==
    /\ gShown' = gShown \cup {Shown(0, "command", message)}
    /\ gExit' = 1
    /\ gPc' = "exited"

\* An error that reaches the catch block of run().
Throw(err) ==
    /\ gErr' = err
    /\ gPc' = "catch"

\* The checks of the arguments, ahead of the try block.
GenValidate ==
    /\ gPc = "validate"
    /\ IF IsBlank(gPrompt)
       THEN ExitWithError("Prompt is required.") /\ UNCHANGED gErr
       ELSE IF gCount < 1
       THEN ExitWithError("--count must be a positive integer.") /\ UNCHANGED gErr
       ELSE gPc' = "launch" /\ UNCHANGED <<gShown, gExit, gErr>>
    /\ UNCHANGED <<genArgs, genBrowser, genLoop, genAttempts, gExitCode, gKeep,
                   gAggregated, genPrelude, exceptGen>>

\* launchBrowser: it can fail before the browser runs, or after, while
\* the page defaults are applied; in both cases no session is returned.
LaunchOutcomes == {"ok", "launchFails", "defaultsFail"}

GenLaunch ==
    /\ gPc = "launch"
    /\ \E o \in LaunchOutcomes :
        /\ gLive' = IF o = "launchFails" THEN gLive ELSE gLive \cup {1}
        /\ IF o = "ok"
           THEN /\ gSession' = 1
                /\ gRegistry' = Append(gRegistry, 1)
                /\ gPc' = "getPage"
                /\ UNCHANGED gErr
           ELSE Throw("Error") /\ UNCHANGED <<gSession, gRegistry>>
    /\ UNCHANGED <<genArgs, gPages, genLoop, genAttempts, gShown, gExitCode, gKeep,
                   gAggregated, gExit, genPrelude, exceptGen>>

\* getOrCreatePage, before the navigation and again after the sign-in.
GenGetPage ==
    /\ gPc \in {"getPage", "postAuthPage"}
    /\ \E ok \in BOOLEAN :
        IF ok
        THEN /\ gPc' = IF gPc = "getPage" THEN "navigate" ELSE "branch"
             /\ UNCHANGED gErr
        ELSE Throw("Error")
    /\ UNCHANGED <<genArgs, genBrowser, genLoop, genAttempts, gShown, gExitCode,
                   gKeep, gAggregated, gExit, genPrelude, exceptGen>>

\* The pages page.goto can end on: whether the call succeeded, whether
\* isAuthRequired classifies the page as a sign-in page, and whether the
\* application shell is visible on it.
NavPages ==
    {[gotoOk |-> FALSE, auth |-> FALSE, shell |-> FALSE]}
    \cup [gotoOk : {TRUE}, auth : BOOLEAN, shell : BOOLEAN]

\* navigateToGemini with no return ahead of the wait for the shell.
navigateToGemini_AlwaysWaitsShell(p) ==
    IF ~p.gotoOk THEN [result |-> "Error", waitedShell |-> FALSE]
    ELSE IF p.shell THEN [result |-> "ok", waitedShell |-> TRUE]
    ELSE [result |-> "SelectorError", waitedShell |-> TRUE]

\* navigateToGemini: its result, and whether it waited for the shell.
navigateToGemini(p) ==
    IF ~p.gotoOk THEN [result |-> "Error", waitedShell |-> FALSE]
    ELSE IF p.auth THEN [result |-> "ok", waitedShell |-> FALSE]
    ELSE IF p.shell THEN [result |-> "ok", waitedShell |-> TRUE]
    ELSE [result |-> "SelectorError", waitedShell |-> TRUE]

GenNavigate ==
    /\ gPc = "navigate"
    /\ \E p \in NavPages :
        LET nav == navigateToGemini(p) IN
        /\ gNav' = [called |-> TRUE, gotoOk |-> p.gotoOk, auth |-> p.auth,
                    shell |-> p.shell, result |-> nav.result,
                    waitedShell |-> nav.waitedShell]
        /\ IF nav.result = "ok"
           THEN gPc' = "authCheck" /\ UNCHANGED gErr
           ELSE Throw(nav.result)
    /\ UNCHANGED <<genArgs, genBrowser, genLoop, genAttempts, gShown, gExitCode,
                   gKeep, gAggregated, gExit, gRecovery, exceptGen>>

\* isAuthRequired on the page navigateToGemini has just returned from.
GenAuthCheck ==
    /\ gPc = "authCheck"
    /\ gPc' = IF gNav.auth THEN "switchToVisible" ELSE "branch"
    /\ UNCHANGED <<genArgs, genBrowser, genLoop, genAttempts, gShown, gErr,
                   gExitCode, gKeep, gAggregated, gExit, genPrelude, exceptGen>>

\* relaunchBrowser: the current browser is closed, then a new one is
\* launched and sent to an address; an error after the launch leaves the
\* new browser running with no session returned.
RelaunchOutcomes == LaunchOutcomes \cup {"gotoFails"}

\* A step of the recovery: what is called, whether the browser it
\* launches is headless, and the address it is sent to.
Relaunch(op, headless, navigateTo) ==
    [op |-> op, headless |-> headless, navigateTo |-> navigateTo]

\* unregisterSession, switchToVisible, registerSession; and the same
\* around resumeAfterAuth.
GenRelaunch ==
    /\ gPc \in {"switchToVisible", "resumeAfterAuth"}
    /\ gRecovery' = Append(gRecovery,
                           IF gPc = "switchToVisible"
                           THEN Relaunch("switchToVisible", FALSE, "currentUrl")
                           ELSE Relaunch("resumeAfterAuth", TRUE,
                                         "https://gemini.google.com/app"))
    /\ \E o \in RelaunchOutcomes :
        LET new == gSession + 1
            closed == gLive \ {gSession}
        IN  /\ gLive' = IF o = "launchFails" THEN closed ELSE closed \cup {new}
            /\ IF o = "ok"
               THEN /\ gSession' = new
                    /\ gRegistry' = Append(unregisterSession(gRegistry, gSession), new)
                    /\ gPc' = IF gPc = "switchToVisible"
                              THEN "waitForWindowClose" ELSE "postAuthPage"
                    /\ UNCHANGED gErr
               ELSE /\ gRegistry' = unregisterSession(gRegistry, gSession)
                    /\ Throw("Error")
                    /\ UNCHANGED gSession
    /\ UNCHANGED <<genArgs, gPages, genLoop, genAttempts, gShown, gExitCode, gKeep,
                   gAggregated, gExit, gNav, exceptGen>>

\* waitForWindowClose: settled when the user closes the window.
GenWaitForWindowClose ==
    /\ gPc = "waitForWindowClose"
    /\ gLive' = gLive \ {gSession}
    /\ gPc' = "resumeAfterAuth"
    /\ gRecovery' = Append(gRecovery, Relaunch("waitForWindowClose", FALSE, "none"))
    /\ UNCHANGED <<genArgs, gSession, gRegistry, gPages, genLoop, genAttempts,
                   gShown, gErr, gExitCode, gKeep, gAggregated, gExit, gNav,
                   exceptGen>>

\* basePath, and the choice between the single and the multiple flow.
GenBranch ==
    /\ gPc = "branch"
    /\ IF gCount = 1
       THEN gPc' = "single" /\ gI' = 1 /\ gStep' = 1
       ELSE gPc' = "createPages" /\ gI' = 2 /\ gStep' = 0
    /\ UNCHANGED <<genArgs, genBrowser, genAttempts, gShown, gErr, gExitCode,
                   gKeep, gAggregated, gExit, genPrelude, exceptGen>>

\* The ways a step of an attempt can end: its result, and the timing of
\* the last result wait after it.
StepOutcomes(step, wait) ==
    IF step = "waitForGeneration"
    THEN UNION { { [result |-> w.result,
                    wait |-> [entered |-> TRUE, urlWait |-> in[1],
                              image |-> in[2].image, at |-> in[2].at,
                              settledAt |-> w.at]]
                   : w \in waitForGenerationWithWatchdog(in[1], in[2]) }
                 : in \in UrlWaits \X ImageFates }
    ELSE { [result |-> o, wait |-> wait] : o \in {"ok"} \cup StepErrors(step) }

\* The single flow: every error goes to the catch block of run().
GenSingleStep ==
    /\ gPc = "single"
    /\ LET step == SINGLE_STEPS[gStep] IN
       \E o \in StepOutcomes(step, gWait) :
        /\ gWait' = o.wait
        /\ gWaitRun' = IF step = "waitForGeneration"
                       THEN Append(gWaitRun, gI) ELSE gWaitRun
        /\ IF o.result # "ok"
           THEN Throw(o.result) /\ UNCHANGED <<gStep, gSaved, gSavedIdx>>
           ELSE IF gStep < Len(SINGLE_STEPS)
           THEN gStep' = gStep + 1 /\ UNCHANGED <<gPc, gErr, gSaved, gSavedIdx>>
           ELSE /\ gSaved' = Append(gSaved, imagePath(gBase, gI, gCount))
                /\ gSavedIdx' = Append(gSavedIdx, gI)
                /\ gPc' = "aggregate"
                /\ UNCHANGED <<gStep, gErr>>
    /\ UNCHANGED <<genArgs, genBrowser, gI, gStarted, gSubmitRun, gSubmitFailed,
                   gShown, gExitCode, gKeep, gAggregated, gExit, genPrelude, exceptGen>>

\* createPage for the attempts 2..count; after the last one,
\* generationStarted is filled with false and the first loop begins.
GenCreatePage ==
    /\ gPc = "createPages"
    /\ \E ok \in BOOLEAN :
        IF ok
        THEN /\ gPages' = gPages \cup {gI}
             /\ IF gI < gCount
                THEN gI' = gI + 1 /\ UNCHANGED <<gPc, gStep, gStarted>>
                ELSE /\ gPc' = "phaseA" /\ gI' = 1 /\ gStep' = 1
                     /\ gStarted' = [k \in 1..gCount |-> FALSE]
             /\ UNCHANGED gErr
        ELSE Throw("Error") /\ UNCHANGED <<gPages, gI, gStep, gStarted>>
    /\ UNCHANGED <<genArgs, gSession, gLive, gRegistry, gSaved, gSavedIdx,
                   gSubmitRun, gSubmitFailed, gWaitRun, gWait, gShown, gExitCode,
                   gKeep, gAggregated, gExit, genPrelude, exceptGen>>

\* The first loop has no page left once the attempt count is done.
SubmitLoopDone_AfterFirst(i, count) == TRUE

SubmitLoopDone(i, count) == i >= count

\* The second loop passes over the attempts whose generation was not started.
SkipsWait_Never(started, i) == FALSE

SkipsWait(started, i) == ~started[i]

\* The second loop starts over from the first attempt every time.
NextToFinish_FromStart(started, from, count) ==
    LET todo == {k \in 1..count : ~SkipsWait(started, k)}
    IN  IF todo = {} THEN 0 ELSE CHOOSE k \in todo : \A m \in todo : k <= m

\* The first attempt at or after `from` the second loop works on, or 0.
NextToFinish(started, from, count) ==
    LET todo == {k \in from..count : ~SkipsWait(started, k)}
    IN  IF todo = {} THEN 0 ELSE CHOOSE k \in todo : \A m \in todo : k <= m

\* The first loop, one step of startSingleImageGeneration at a time; an
\* error ends the attempt and is shown, and the loop goes on.
GenSubmitStep ==
    /\ gPc = "phaseA"
    /\ gSubmitRun' = IF gStep = 1 THEN Append(gSubmitRun, gI) ELSE gSubmitRun
    /\ \E o \in StepOutcomes(SUBMIT_STEPS[gStep], gWait) :
        IF o.result = "ok" /\ gStep < Len(SUBMIT_STEPS)
        THEN /\ gStep' = gStep + 1
             /\ UNCHANGED <<gPc, gI, gStarted, gSubmitFailed, gShown>>
        ELSE LET started == IF o.result = "ok"
                            THEN [gStarted EXCEPT ![gI] = TRUE] ELSE gStarted
                 next == NextToFinish(started, 1, gCount)
             IN  /\ gStarted' = started
                 /\ gSubmitFailed' = IF o.result = "ok" THEN gSubmitFailed
                                     ELSE gSubmitFailed \cup {gI}
                 /\ gShown' = IF o.result = "ok" THEN gShown
                              ELSE gShown \cup
                                   {Shown(gI, "before generation", o.result)}
                 /\ IF ~SubmitLoopDone(gI, gCount)
                    THEN gI' = gI + 1 /\ gStep' = 1 /\ UNCHANGED gPc
                    ELSE IF next = 0
                    THEN gPc' = "closePages" /\ gI' = 0 /\ gStep' = 0
                    ELSE gPc' = "phaseB" /\ gI' = next /\ gStep' = 1
    /\ UNCHANGED <<genArgs, genBrowser, gSaved, gSavedIdx, gWaitRun, gWait, gErr,
                   gExitCode, gKeep, gAggregated, gExit, genPrelude, exceptGen>>

\* The second loop, one step of finishSingleImageDownload at a time.
GenFinishStep ==
    /\ gPc = "phaseB"
    /\ LET step == FINISH_STEPS[gStep] IN
       \E o \in StepOutcomes(step, gWait) :
        /\ gWait' = o.wait
        /\ gWaitRun' = IF step = "waitForGeneration"
                       THEN Append(gWaitRun, gI) ELSE gWaitRun
        /\ IF o.result = "ok" /\ gStep < Len(FINISH_STEPS)
           THEN /\ gStep' = gStep + 1
                /\ UNCHANGED <<gPc, gI, gSaved, gSavedIdx, gShown>>
           ELSE LET next == NextToFinish(gStarted, gI + 1, gCount) IN
                /\ IF o.result = "ok"
                   THEN /\ gSaved' = Append(gSaved, imagePath(gBase, gI, gCount))
                        /\ gSavedIdx' = Append(gSavedIdx, gI)
                        /\ UNCHANGED gShown
                   ELSE /\ gShown' = gShown \cup {Shown(gI, "wait/download", o.result)}
                        /\ UNCHANGED <<gSaved, gSavedIdx>>
                /\ IF next = 0
                   THEN gPc' = "closePages" /\ gI' = 0 /\ gStep' = 0
                   ELSE gI' = next /\ gStep' = 1 /\ UNCHANGED gPc
    /\ UNCHANGED <<genArgs, genBrowser, gStarted, gSubmitRun, gSubmitFailed, gErr,
                   gExitCode, gKeep, gAggregated, gExit, genPrelude, exceptGen>>

\* The closes are awaited one after the other and the first rejection
\* ends them: the pages after it stay open.
ClosePages_StopAtFirstFailure(pages, failing) ==
    {p \in pages : \E f \in failing : f < p}

\* Promise.all over workerPages.slice(1), each close() in its own
\* try/catch: close() is called on every page whatever the others do; the
\* pages of `failing` reject it, being closed already.  The result is the
\* set of pages left open.
ClosePages(pages, failing) == {}

\* Outside debug mode the secondary pages are closed, errors ignored.
GenClosePages ==
    /\ gPc = "closePages"
    /\ \E failing \in SUBSET gPages :
        gPages' = IF gDebug THEN gPages ELSE ClosePages(gPages, failing)
    /\ gPc' = "aggregate"
    /\ UNCHANGED <<genArgs, gSession, gLive, gRegistry, genLoop, genAttempts,
                   gShown, gErr, gExitCode, gKeep, gAggregated, gExit, genPrelude, exceptGen>>

\* The test of the saved paths never finds them empty.
AllFailed_Never(saved) == FALSE

\* savedPaths.length === 0
AllFailed(saved) == Len(saved) = 0

\* The test of savedPaths: exitWithError when nothing was saved, else
\* the outro, after which the try block is left.
GenAggregate ==
    /\ gPc = "aggregate"
    /\ gAggregated' = TRUE
    /\ IF AllFailed(gSaved)
       THEN ExitWithError("All image generation attempts failed.")
       ELSE gPc' = "finally" /\ UNCHANGED <<gShown, gExit>>
    /\ UNCHANGED <<genArgs, genBrowser, genLoop, genAttempts, gErr, gExitCode,
                   gKeep, genPrelude, exceptGen>>

\* The catch block of run().
GenCatch ==
    /\ gPc = "catch"
    /\ gShown' = gShown \cup {Shown(0, "command", gErr)}
    /\ gKeep' = (gDebug /\ gHeaded /\ gSession # 0)
    /\ gExitCode' = 1
    /\ gPc' = "finally"
    /\ UNCHANGED <<genArgs, genBrowser, genLoop, genAttempts, gErr, gAggregated,
                   gExit, genPrelude, exceptGen>>

\* The finally block of run(): the session is unregistered and closed,
\* unless the browser is kept for inspection and still connected.
GenFinally ==
    /\ gPc = "finally"
    /\ IF gSession = 0
       THEN gPc' = "exited" /\ gExit' = gExitCode /\ UNCHANGED <<gRegistry, gLive>>
       ELSE /\ gRegistry' = unregisterSession(gRegistry, gSession)
            /\ IF gKeep /\ gSession \in gLive
               THEN gPc' = "waitDisconnected" /\ UNCHANGED <<gLive, gExit>>
               ELSE /\ gLive' = gLive \ {gSession}
                    /\ gPc' = "exited"
                    /\ gExit' = gExitCode
    /\ UNCHANGED <<genArgs, gSession, gPages, genLoop, genAttempts, gShown, gErr,
                   gExitCode, gKeep, gAggregated, genPrelude, exceptGen>>

\* The browser kept for inspection is closed by the user.
GenWaitDisconnected ==
    /\ gPc = "waitDisconnected"
    /\ gLive' = gLive \ {gSession}
    /\ gPc' = "exited"
    /\ gExit' = gExitCode
    /\ UNCHANGED <<genArgs, gSession, gRegistry, gPages, genLoop, genAttempts,
                   gShown, gErr, gExitCode, gKeep, gAggregated, genPrelude, exceptGen>>

Next ==
    \/ GenValidate
    \/ GenLaunch
    \/ GenGetPage
    \/ GenNavigate
    \/ GenAuthCheck
    \/ GenRelaunch
    \/ GenWaitForWindowClose
    \/ GenBranch
    \/ GenSingleStep
    \/ GenCreatePage
    \/ GenSubmitStep
    \/ GenFinishStep
    \/ GenClosePages
    \/ GenAggregate
    \/ GenCatch
    \/ GenFinally
    \/ GenWaitDisconnected

Init == InitGen

Spec == Init /\ [][Next]_vars

\* ---------------------------------------------------------------------
\* Properties of the generate run.
\* ---------------------------------------------------------------------

Reported(i, stage) == \E r \in gShown : r.index = i /\ r.stage = stage

\* C1: in a run with count > 1, an attempt whose submission raised never
\* enters the wait/capture phase and has an error shown for it; once the
\* run has ended every attempt was submitted all the same, and every
\* attempt whose wait and capture succeeded has its own path among the
\* saved ones.
C1_SubmitFailureIsolated ==
    gCount > 1 =>
        /\ \A i \in gSubmitFailed :
            /\ i \notin Range(gWaitRun)
            /\ i \notin Range(gSavedIdx)
            /\ Reported(i, "before generation")
        /\ (gPc = "exited" /\ gSubmitFailed # {}) =>
            /\ Range(gSubmitRun) = 1..gCount
            /\ \A j \in Range(gSavedIdx) :
                imagePath(gBase, j, gCount) \in Range(gSaved)
            /\ Len(gSaved) = Len(gSavedIdx)

\* Three attempts, the second fails in submission, the other two are saved.
C1_Witness ==
    /\ gPc = "exited" /\ gCount = 3
    /\ gSubmitFailed = {2}
    /\ gSubmitRun = <<1, 2, 3>>
    /\ gWaitRun = <<1, 3>>
    /\ gSaved = <<imagePath(gBase, 1, 3), imagePath(gBase, 3, 3)>>

\* C2: in a run with count > 1, submissions are started in increasing
\* index order, and by the time any attempt has begun its wait/capture
\* every attempt 1..count has had its submission started and ended, with
\* generation started or with a failure recorded.
C2_SubmitBarrier ==
    gCount > 1 =>
        /\ gSubmitRun = [k \in 1..Len(gSubmitRun) |-> k]
        /\ gWaitRun # <<>> =>
            /\ gSubmitRun = [k \in 1..gCount |-> k]
            /\ gPc # "phaseA"
            /\ \A j \in 1..gCount : gStarted[j] \/ j \in gSubmitFailed

\* The first attempt is past its wait while the other two, submitted
\* before, have not begun theirs.
C2_Witness ==
    /\ gCount = 3 /\ gPc = "phaseB" /\ gI = 1 /\ gStep = 2
    /\ gWaitRun = <<1>>
    /\ gStarted = <<TRUE, TRUE, TRUE>>

\* C3: in a run with count = 1 whose result image never becomes visible,
\* the result wait ends by its own timeout, at most 30 s + 300 s after it
\* began and before the 360 s watchdog; the command shows the
\* GenerationTimeout error, saves no path and exits with a non-zero status.
C3_SingleTimeoutFails ==
    (gCount = 1 /\ gWait.entered /\ gWait.image # "visible") =>
        /\ gWait.urlWait <= AppUrlWaitTimeout
        /\ gWait.settledAt <= gWait.urlWait + GENERATION_TIMEOUT
        /\ gWait.image = "never" =>
            gWait.settledAt = gWait.urlWait + GENERATION_TIMEOUT
        /\ gWait.settledAt < generationGuardTimeoutMs
        /\ gSaved = <<>>
        /\ gErr = "GenerationTimeoutError"
        /\ gPc = "exited" =>
            /\ Shown(0, "command", "GenerationTimeoutError") \in gShown
            /\ gExit # 0

\* The address wait ran out, then the result wait; the command has ended.
C3_Witness ==
    /\ gCount = 1 /\ gPc = "exited"
    /\ gWait.entered /\ gWait.image = "never"
    /\ gWait.urlWait = AppUrlWaitTimeout
    /\ gExit = 1

\* The attempts that have not saved a file.
FailedAttempts == (1..gCount) \ Range(gSavedIdx)

\* C4: a run with count > 1 that reached the test of the saved paths ends
\* with a failure status exactly when no attempt saved a file, and with
\* success otherwise; each attempt that saved nothing has one error shown
\* that carries its index and the message of what it raised.
C4_ExitStatus ==
    (gCount > 1 /\ gAggregated /\ gPc = "exited") =>
        /\ gExit # 0 <=> gSaved = <<>>
        /\ gSaved # <<>> => gExit = 0
        /\ \A i \in FailedAttempts :
            \E r \in gShown :
                /\ r.index = i
                /\ r.stage \in {"before generation", "wait/download"}
                /\ r.message \in {"Error", "SelectorError", "DownloadError",
                                  "GenerationTimeoutError",
                                  "Generation watchdog timeout"}
        /\ Cardinality({r \in gShown : r.index # 0}) = Cardinality(FailedAttempts)

\* Partial success: one of three attempts saved, the run ends with success.
C4_Witness ==
    /\ gCount = 3 /\ gAggregated /\ gPc = "exited"
    /\ Len(gSaved) = 1 /\ gExit = 0
    /\ Reported(1, "before generation") /\ Reported(3, "wait/download")

\* C5: savedPaths is in increasing order of the attempts that produced its
\* entries, has no duplicate, and each entry is getMultiOutputPath(base, i,
\* count) for its attempt i.
C5_SavedPathsOrdered ==
    /\ Len(gSaved) = Len(gSavedIdx)
    /\ \A k \in 1..Len(gSaved) :
        /\ gSavedIdx[k] \in 1..gCount
        /\ gSaved[k] = getMultiOutputPath(gBase, gSavedIdx[k], gCount)
    /\ \A k, m \in 1..Len(gSaved) :
        k < m => (gSavedIdx[k] < gSavedIdx[m] /\ gSaved[k] # gSaved[m])

\* All three attempts saved, for a base path with an extension.
C5_Witness ==
    /\ gCount = 3 /\ gBase = <<"a", ".">>
    /\ gSavedIdx = <<1, 2, 3>>
    /\ Len(gSaved) = 3

\* The recovery of generate.ts 188-194, in the order of the calls.
RecoverySequence ==
    << Relaunch("switchToVisible", FALSE, "currentUrl"),
       Relaunch("waitForWindowClose", FALSE, "none"),
       Relaunch("resumeAfterAuth", TRUE, "https://gemini.google.com/app") >>

IsPrefix(s, t) == Len(s) <= Len(t) /\ SubSeq(t, 1, Len(s)) = s

\* C12: when the page reached by the navigation classifies as a sign-in
\* page, navigateToGemini returns without an error and without having
\* waited for the application shell; generate then relaunches visible at
\* the current address, waits for the window to be closed and relaunches
\* headless at the application address, in this order, and no attempt has
\* begun before the three are done.  Without that classification there is
\* no recovery step.
C12_AuthRecoveryOrder ==
    /\ (gNav.called /\ gNav.gotoOk /\ gNav.auth) =>
        /\ gNav.result = "ok"
        /\ ~gNav.waitedShell
        /\ IsPrefix(gRecovery, RecoverySequence)
        /\ (gPc = "branch" \/ gI > 0) => gRecovery = RecoverySequence
    /\ ~gNav.auth => gRecovery = <<>>

\* The recovery is done and the first step of the single attempt is next.
C12_Witness ==
    /\ gNav.auth /\ gNav.shell
    /\ gPc = "single" /\ gStep = 1
    /\ gRecovery = RecoverySequence
    /\ gSession = 3 /\ gLive = {3}

\* C37: when a run with count > 1 has been through both loops and comes
\* to the test of the saved paths, without debug none of the pages of
\* attempts 2..count is open, whichever attempts failed and whichever
\* closes were rejected; with debug all of them are still open.
C37_SecondaryPagesClosed ==
    /\ (gCount > 1 /\ gPc = "aggregate") =>
        gPages = IF gDebug THEN 2..gCount ELSE {}
    /\ (gCount > 1 /\ gAggregated /\ ~gDebug) => gPages = {}
    /\ (gCount > 1 /\ gPc \in {"phaseA", "phaseB", "closePages"}) =>
        gPages = 2..gCount

C37_Witness ==
    /\ gCount = 3 /\ ~gDebug
    /\ gPc = "aggregate" /\ gPages = {}
    /\ gSavedIdx = <<2>>
    /\ Reported(1, "before generation") /\ Reported(3, "wait/download")

\* C38: in a run with count > 1 the attempts enter the wait in increasing
\* order, none twice, and whenever one is in its wait or capture every
\* attempt that entered the wait before it has saved its file or has had
\* its failure shown.
C38_OneCaptureAtATime ==
    gCount > 1 =>
        /\ \A a, b \in 1..Len(gWaitRun) : a < b => gWaitRun[a] < gWaitRun[b]
        /\ \A k \in Range(gWaitRun) :
            (gPc = "phaseB" /\ k = gI)
            \/ k \in Range(gSavedIdx)
            \/ Reported(k, "wait/download")
        /\ gPc = "phaseB" =>
            \A k \in Range(gWaitRun) : k <= gI

C38_Witness ==
    /\ gCount = 3 /\ gPc = "phaseB"
    /\ gI = 3 /\ FINISH_STEPS[gStep] = "downloadImage"
    /\ gWaitRun = <<1, 2, 3>>
    /\ gSavedIdx = <<1>>
    /\ Reported(2, "wait/download")

\* ---------------------------------------------------------------------
\* browser/session-manager: launchBrowser, relaunchBrowser and the close
\* of a session, called by a caller that holds at most one session; the
\* user signs in, and a browser can die at any moment.
\* ---------------------------------------------------------------------

HomeDirs == {"/home/u", "/root"}

AppAddress == "https://gemini.google.com/app"

\* join(homedir(), ".nban", "profile"), as its segments.
getProfilePath(home) == <<home, ".nban", "profile">>

\* A directory of its own for the n-th launch.
userDataDir_PerLaunch(home, n) == getProfilePath(home) \o <<DigitChar(n)>>

\* userDataDir of the n-th launch: profilePath, whatever n.
userDataDir(home, n) == getProfilePath(home)

\* What browser.close() does: it closes a running browser; on one that is
\* gone it throws or does nothing.
BrowserCloseAnswers(running) == IF running THEN {"closes"} ELSE {"throws", "noop"}

\* The close of a session with no catch around browser.close().
close_NoCatch(answer) == IF answer = "throws" THEN "raised" ELSE "returned"

\* The close of a session: browser.close() in a try with an empty catch.
close(answer) == "returned"

\* The page at the application address, for a browser on profile `dir`.
Classify(dir, loggedIn) ==
    IF dir \in loggedIn THEN "Authenticated" ELSE "AuthRequired"

InitSess ==
    /\ IdleExceptSess
    /\ sOp = "none" /\ sPc = "idle"
    /\ sHome \in HomeDirs
    /\ sCur = 0 /\ sLive = {} /\ sDirs = <<>> /\ sHeadless = TRUE /\ sNew = 0
    /\ sNavigateTo = "none" /\ sTrace = <<>> /\ sClose = NoClose
    /\ sCloseCalls = 0 /\ sResult = "none"
    /\ sLoggedIn = {}
    /\ sClass = "none"

\* The call ends by raising to the caller, who keeps what it held.
SessRaise ==
    /\ sOp' = "none" /\ sPc' = "idle" /\ sResult' = "raised"

\* The call ends by returning the new session to the caller.
SessReturn ==
    /\ sOp' = "none" /\ sPc' = "idle" /\ sResult' = "returned" /\ sCur' = sNew
    /\ sCloseCalls' = 0

\* session.close() on the session held, with what it does to the browsers.
SessDoClose(answer) ==
    /\ sLive' = sLive \ {sCur}
    /\ sClose' = [session |-> sCur, before |-> sLive, answer |-> answer,
                  result |-> close(answer)]
    /\ sCloseCalls' = sCloseCalls + 1

\* The caller calls launchBrowser; it holds no running session.
SessCallLaunch ==
    /\ sOp = "none"
    /\ sCur \notin sLive
    /\ Len(sDirs) < MaxLaunches
    /\ \E headless \in BOOLEAN : sHeadless' = headless
    /\ sOp' = "launchBrowser" /\ sPc' = "prepare"
    /\ sNew' = 0 /\ sNavigateTo' = "none" /\ sTrace' = <<>> /\ sResult' = "none"
    /\ sClose' = NoClose
    /\ UNCHANGED <<sHome, sCur, sLive, sDirs, sCloseCalls, sLoggedIn, sClass,
                   exceptSess>>

\* relaunchBrowser going to the launch at once.
RelaunchEntry_LaunchFirst == "prepare"

\* Where relaunchBrowser begins: at the close of the current session.
RelaunchEntry == "close"

\* The caller calls relaunchBrowser on the session it holds.
SessCallRelaunch ==
    /\ sOp = "none"
    /\ sCur # 0
    /\ Len(sDirs) < MaxLaunches
    /\ sCloseCalls < MaxCloses
    /\ \E nav \in {"none", "currentUrl", AppAddress} : sNavigateTo' = nav
    /\ \E headless \in BOOLEAN : sHeadless' = headless
    /\ sOp' = "relaunchBrowser" /\ sPc' = RelaunchEntry
    /\ sNew' = 0 /\ sTrace' = <<>> /\ sResult' = "none"
    /\ sClose' = NoClose
    /\ UNCHANGED <<sHome, sCur, sLive, sDirs, sCloseCalls, sLoggedIn, sClass,
                   exceptSess>>

\* relaunchBrowser: await currentSession.close().
SessRelaunchClose ==
    /\ sOp = "relaunchBrowser" /\ sPc = "close"
    /\ \E answer \in BrowserCloseAnswers(sCur \in sLive) :
        /\ SessDoClose(answer)
        /\ IF close(answer) = "returned"
           THEN /\ sPc' = "pause" /\ sTrace' = Append(sTrace, "close")
                /\ UNCHANGED <<sOp, sResult>>
           ELSE SessRaise /\ UNCHANGED sTrace
    /\ UNCHANGED <<sHome, sCur, sDirs, sHeadless, sNew, sNavigateTo, sLoggedIn,
                   sClass, exceptSess>>

\* relaunchBrowser: the pause of 500 ms.
SessPause ==
    /\ sOp = "relaunchBrowser" /\ sPc = "pause"
    /\ sPc' = "prepare" /\ sTrace' = Append(sTrace, "pause")
    /\ UNCHANGED <<sOp, sHome, sCur, sLive, sDirs, sHeadless, sNew, sNavigateTo,
                   sClose, sCloseCalls, sResult, sLoggedIn, sClass, exceptSess>>

\* launchBrowser: ensureDir(profilePath) and detectChannel().
SessPrepare ==
    /\ sPc = "prepare"
    /\ \E ok \in BOOLEAN :
        IF ok THEN sPc' = "spawn" /\ UNCHANGED <<sOp, sResult>> ELSE SessRaise
    /\ UNCHANGED <<sHome, sCur, sLive, sDirs, sHeadless, sNew, sNavigateTo, sTrace,
                   sClose, sCloseCalls, sLoggedIn, sClass, exceptSess>>

\* launchBrowser: puppeteer.launch on the profile directory.
SessSpawn ==
    /\ sPc = "spawn"
    /\ \E ok \in BOOLEAN :
        IF ok
        THEN LET id == Len(sDirs) + 1 IN
             /\ sDirs' = Append(sDirs, userDataDir(sHome, id))
             /\ sLive' = sLive \cup {id}
             /\ sNew' = id
             /\ sTrace' = IF sOp = "relaunchBrowser"
                          THEN Append(sTrace, "launch") ELSE sTrace
             /\ sPc' = "defaults"
             /\ UNCHANGED <<sOp, sResult>>
        ELSE /\ SessRaise
             /\ UNCHANGED <<sDirs, sLive, sNew, sTrace>>
    /\ UNCHANGED <<sHome, sCur, sHeadless, sNavigateTo, sClose, sCloseCalls,
                   sLoggedIn, sClass, exceptSess>>

\* launchBrowser: applyPageDefaults on the pages of the browser, then the
\* session is returned; relaunchBrowser goes on to the navigation when it
\* was given an address.
SessDefaults ==
    /\ sPc = "defaults"
    /\ \E ok \in BOOLEAN :
        IF ~ok THEN SessRaise /\ UNCHANGED <<sCur, sCloseCalls>>
        ELSE IF sOp = "relaunchBrowser" /\ sNavigateTo # "none"
        THEN sPc' = "goto" /\ UNCHANGED <<sOp, sResult, sCur, sCloseCalls>>
        ELSE SessReturn
    /\ UNCHANGED <<sHome, sLive, sDirs, sHeadless, sNew, sNavigateTo, sTrace,
                   sClose, sLoggedIn, sClass, exceptSess>>

\* relaunchBrowser: getOrCreatePage and page.goto(navigateTo).
SessGoto ==
    /\ sPc = "goto"
    /\ sTrace' = Append(sTrace, "goto")
    /\ \E ok \in BOOLEAN :
        IF ok /\ sNew \in sLive
        THEN /\ SessReturn
             /\ sClass' = IF sNavigateTo = AppAddress
                          THEN Classify(sDirs[sNew], sLoggedIn) ELSE sClass
        ELSE SessRaise /\ UNCHANGED <<sCur, sClass, sCloseCalls>>
    /\ UNCHANGED <<sHome, sLive, sDirs, sHeadless, sNew, sNavigateTo, sClose,
                   sLoggedIn, exceptSess>>

\* The caller calls close on the session it holds, whatever its state.
SessCallClose ==
    /\ sOp = "none"
    /\ sCur # 0
    /\ sCloseCalls < MaxCloses
    /\ \E answer \in BrowserCloseAnswers(sCur \in sLive) :
        /\ SessDoClose(answer)
        /\ sResult' = close(answer)
    /\ sNew' = 0 /\ sTrace' = <<>>
    /\ UNCHANGED <<sOp, sPc, sHome, sCur, sDirs, sHeadless, sNavigateTo,
                   sLoggedIn, sClass, exceptSess>>

\* A browser dies at any moment: it crashes, or the user closes its
\* window.
SessBrowserDies ==
    /\ \E id \in sLive : sLive' = sLive \ {id}
    /\ UNCHANGED <<sOp, sPc, sHome, sCur, sDirs, sHeadless, sNew, sNavigateTo,
                   sTrace, sClose, sCloseCalls, sResult, sLoggedIn, sClass,
                   exceptSess>>

\* The user signs in, in the visible browser of the session held: the
\* browser writes the signed-in state to its profile directory.
SessSignIn ==
    /\ sOp = "none"
    /\ sCur \in sLive
    /\ ~sHeadless
    /\ sDirs[sCur] \notin sLoggedIn
    /\ sLoggedIn' = sLoggedIn \cup {sDirs[sCur]}
    /\ sClass' = "none"
    /\ UNCHANGED <<sOp, sPc, sHome, sCur, sLive, sDirs, sHeadless, sNew,
                   sNavigateTo, sTrace, sClose, sCloseCalls, sResult, exceptSess>>

NextSess ==
    \/ SessCallLaunch
    \/ SessCallRelaunch
    \/ SessRelaunchClose
    \/ SessPause
    \/ SessPrepare
    \/ SessSpawn
    \/ SessDefaults
    \/ SessGoto
    \/ SessCallClose
    \/ SessBrowserDies
    \/ SessSignIn

SpecSess == InitSess /\ [][NextSess]_vars

\* C13: every browser launched, by launchBrowser or by relaunchBrowser,
\* has the one profile directory of getProfilePath as its userDataDir; so
\* once the user has signed in, in the visible browser of a session, a
\* page loaded at the application address by a later relaunch does not
\* classify as a sign-in page.
C13_SharedProfile ==
    /\ \A k \in 1..Len(sDirs) : sDirs[k] = getProfilePath(sHome)
    /\ (sLoggedIn # {} /\ sClass # "none") => sClass = "Authenticated"

\* Launch, relaunch visible, sign-in, relaunch headless at the application
\* address: the page is classified as authenticated.
C13_Witness ==
    /\ sLoggedIn # {}
    /\ Len(sDirs) = 3 /\ sCur = 3 /\ sLive = {3}
    /\ sHeadless /\ sNavigateTo = AppAddress
    /\ sResult = "returned"
    /\ sClass = "Authenticated"

\* C14: close on a session never raises, whether its browser runs, was
\* closed before or has died; after a call the browser of the session is
\* not running, and a call that finds it gone changes nothing else: the
\* running browsers are those that ran before.
C14_CloseIdempotent ==
    sClose.session # 0 =>
        /\ sClose.result = "returned"
        /\ sClose.session \notin sLive \/ sClose.session # sCur
        /\ sClose.answer = "closes" <=> sClose.session \in sClose.before
        /\ (sOp = "none" /\ sClose.session = sCur /\ sNew = 0) =>
            /\ sCur \notin sLive
            /\ sLive \subseteq sClose.before \ {sCur}
            /\ sCloseCalls >= 1
            /\ (sCloseCalls > 1 /\ sClose.answer # "closes") =>
                sLive \subseteq sClose.before

\* The second close of a session: browser.close() throws, close returns.
C14_Witness ==
    /\ sOp = "none" /\ sCur # 0
    /\ sCloseCalls = 2
    /\ sClose.session = sCur /\ sClose.answer = "throws"
    /\ sResult = "returned"

RELAUNCH_ORDER == <<"close", "pause", "launch", "goto">>

\* C15: relaunchBrowser closes the current session, pauses, launches and
\* only then navigates, and navigates only when it was given an address;
\* the browser of the current session and the new browser never run at
\* the same moment, and when no other browser ran at the call, at most one
\* browser runs at any moment of it.
C15_RelaunchOrder ==
    /\ IsPrefix(sTrace, RELAUNCH_ORDER)
    /\ sNavigateTo = "none" => "goto" \notin Range(sTrace)
    /\ sOp = "relaunchBrowser" =>
        /\ sNew # 0 => SubSeq(sTrace, 1, 3) = SubSeq(RELAUNCH_ORDER, 1, 3)
        /\ ~(sCur \in sLive /\ sNew \in sLive)
        /\ sPc \in {"prepare", "spawn", "defaults", "goto"} =>
            /\ sCur \notin sLive
            /\ sClose.session = sCur
            /\ sClose.before \subseteq {sCur} => Cardinality(sLive) <= 1
    /\ (sOp = "none" /\ sResult = "returned" /\ sTrace # <<>>) =>
        sTrace = IF sNavigateTo = "none"
                 THEN SubSeq(RELAUNCH_ORDER, 1, 3) ELSE RELAUNCH_ORDER

\* A relaunch of a running session with an address has returned: the old
\* browser is gone and the new one runs.
C15_Witness ==
    /\ sOp = "none" /\ sResult = "returned"
    /\ sTrace = RELAUNCH_ORDER /\ sNavigateTo = "currentUrl"
    /\ sClose.answer = "closes"
    /\ sCur = 2 /\ sLive = {2}

\* C16: when launchBrowser or relaunchBrowser raises, no browser it has
\* started is left running: every running browser is the one of the
\* session the caller holds.
C16_NoOrphanBrowser ==
    (sOp = "none" /\ sResult = "raised") =>
        /\ sNew \notin sLive
        /\ \A id \in sLive : id = sCur

\* C17: at every moment of a generate run before the process ends, the
\* session run() holds, when its browser is running, is in activeSessions,
\* also during the auth recovery and while the browser is kept open for
\* inspection.
C17_LiveSessionRegistered ==
    (gPc # "exited" /\ gSession \in gLive) => gSession \in Range(gRegistry)

\* C20: when a generate run that launched a session has ended (success, a
\* caught error, or every attempt failed), the session is out of
\* activeSessions and, unless the browser was kept open for inspection,
\* its browser was closed.
C20_SessionReleasedAtExit ==
    (gPc = "exited" /\ gSession # 0) =>
        /\ gSession \notin Range(gRegistry)
        /\ ~gKeep => gSession \notin gLive

\* ---------------------------------------------------------------------
\* utils/cleanup: SIGINT / SIGTERM while a command runs.  A signal runs
\* handleSignal up to its await: showCancelled, then cleanup copies and
\* empties activeSessions and calls close on each copied session; the
\* handler goes on to process.exit(130) once all these closes have settled.
\* ---------------------------------------------------------------------

Settled == {"closed", "failed"}

InitSig ==
    /\ IdleExceptSig
    /\ cBrowser \in [1..MaxSessions -> {"unlaunched", "open"}]
    /\ cActive = {id \in 1..MaxSessions : cBrowser[id] = "open"}
    /\ cCloseCalls = [id \in 1..MaxSessions |-> 0]
    /\ cHandlers = <<>>
    /\ cCleanups = 0
    /\ cFirst = {}
    /\ cExit = -1

\* The command, still running, launches a session and registers it.
SigRegisterSession ==
    /\ cExit = -1
    /\ \E id \in 1..MaxSessions :
        /\ cBrowser[id] = "unlaunched"
        /\ cBrowser' = [cBrowser EXCEPT ![id] = "open"]
        /\ cActive' = cActive \cup {id}
    /\ UNCHANGED <<cCloseCalls, cHandlers, cCleanups, cFirst, cExit, exceptSig>>

\* The command unregisters a session, as it does ahead of closing it.
SigUnregisterSession ==
    /\ cExit = -1
    /\ \E id \in cActive : cActive' = cActive \ {id}
    /\ UNCHANGED <<cBrowser, cCloseCalls, cHandlers, cCleanups, cFirst, cExit,
                   exceptSig>>

\* SIGINT or SIGTERM: handleSignal up to the await inside cleanup.
SigSignal ==
    /\ cExit = -1
    /\ Len(cHandlers) < MaxSignals
    /\ cCleanups' = cCleanups + 1
    /\ cActive' = {}
    /\ cBrowser' = [id \in 1..MaxSessions |->
                        IF id \in cActive THEN "closing" ELSE cBrowser[id]]
    /\ cCloseCalls' = [id \in 1..MaxSessions |->
                        IF id \in cActive THEN cCloseCalls[id] + 1
                        ELSE cCloseCalls[id]]
    /\ cHandlers' = Append(cHandlers, [pc |-> "awaiting", sessions |-> cActive])
    /\ cFirst' = IF cHandlers = <<>> THEN cActive ELSE cFirst
    /\ UNCHANGED <<cExit, exceptSig>>

\* The close of a session settles; a failure is swallowed.
SigCloseSettles ==
    /\ cExit = -1
    /\ \E id \in 1..MaxSessions, outcome \in Settled :
        /\ cBrowser[id] = "closing"
        /\ cBrowser' = [cBrowser EXCEPT ![id] = outcome]
    /\ UNCHANGED <<cActive, cCloseCalls, cHandlers, cCleanups, cFirst, cExit,
                   exceptSig>>

\* Promise.allSettled of a call of cleanup is fulfilled: its handleSignal
\* goes on to process.exit(130).
SigExit ==
    /\ cExit = -1
    /\ \E h \in 1..Len(cHandlers) :
        /\ cHandlers[h].pc = "awaiting"
        /\ \A id \in cHandlers[h].sessions : cBrowser[id] \in Settled
        /\ cHandlers' = [cHandlers EXCEPT ![h].pc = "exited"]
    /\ cExit' = 130
    /\ UNCHANGED <<cActive, cBrowser, cCloseCalls, cCleanups, cFirst, exceptSig>>

NextSig ==
    \/ SigRegisterSession
    \/ SigUnregisterSession
    \/ SigSignal
    \/ SigCloseSettles
    \/ SigExit

SpecSig == InitSig /\ [][NextSig]_vars

\* C18: the process ends with status 130 only after the close of every
\* session that was in activeSessions when the first signal came has
\* settled.
C18_ExitAfterCloses ==
    cExit = 130 => \A id \in cFirst : cBrowser[id] \in Settled

\* C19: while the shutdown started by a signal is in progress a further
\* signal does not call cleanup again, and cleanup calls close on no
\* session more than once.
C19_CleanupOnce ==
    /\ cCleanups <= 1
    /\ \A id \in 1..MaxSessions : cCloseCalls[id] <= 1

\* ---------------------------------------------------------------------
\* commands/generate: the workflow of one attempt on its page, from the
\* navigation to the capture.  With several images it is
\* startSingleImageGeneration followed by finishSingleImageDownload; with
\* one image it is the navigation of the prelude followed by the steps of
\* the count === 1 branch, which are the same in the same order.
\* ---------------------------------------------------------------------

ATTEMPT_STEPS == SUBMIT_STEPS \o FINISH_STEPS

\* The steps that await the click of an element without a timer beside
\* it (startNewChat, typePrompt), unlike the clicks of clickFirstVisible.
UnguardedClick(step) == step \in {"startNewChat", "typePrompt"}

\* The steps with an await that may stay unsettled: the unguarded clicks,
\* and the result wait, which is why the watchdog is raced against it.
MayHang(step) == UnguardedClick(step) \/ step = "waitForGeneration"

\* Only waitForGenerationWithWatchdog sets the watchdog timer.
WatchdogCovers(step) == step = "waitForGeneration"

\* The ways each step returns normally.  startNewChat returns when the
\* control is absent and when its click fails; initiateImageCreation when
\* creation mode is already active; triggerGeneration presses Enter when
\* no send control could be clicked; hoverToRevealDownload returns whether
\* or not an image was found to hover.
StepWays(step) ==
    CASE step = "startNewChat"          -> {"clicked", "absent", "clickFailed"}
      [] step = "initiateImageCreation" -> {"clicked", "alreadyActive"}
      [] step = "triggerGeneration"     -> {"clicked", "enterPressed"}
      [] step = "hoverToRevealDownload" -> {"hovered", "noImage"}
      [] OTHER                          -> {"done"}

\* The attempt goes on after a step whatever its result.
AttemptContinues_Always(result) == TRUE

\* await: the next statement runs only if the step returned.
AttemptContinues(result) == result = "ok"

InitAttempt ==
    /\ IdleExceptAttempt
    /\ tPc = "ready" /\ tStep = 1 /\ tTrace = <<>> /\ tWait = NoWait
    /\ tWatchdog = FALSE /\ tErr = "none"

\* The next step is called.
AttemptBegin ==
    /\ tPc = "ready"
    /\ tPc' = "pending"
    /\ tWatchdog' = WatchdogCovers(ATTEMPT_STEPS[tStep])
    /\ UNCHANGED <<tStep, tTrace, tWait, tErr, exceptAttempt>>

\* The step settles: it returns, or raises and ends the attempt.
AttemptSettle ==
    /\ tPc = "pending"
    /\ \E o \in StepOutcomes(ATTEMPT_STEPS[tStep], tWait) :
        /\ \E how \in (IF o.result = "ok" THEN StepWays(ATTEMPT_STEPS[tStep])
                        ELSE {"raised"}) :
            tTrace' = Append(tTrace, [step |-> ATTEMPT_STEPS[tStep],
                                      result |-> o.result, how |-> how])
        /\ tWait' = o.wait
        /\ IF AttemptContinues(o.result)
           THEN /\ tErr' = tErr
                /\ IF tStep < Len(ATTEMPT_STEPS)
                   THEN tPc' = "ready" /\ tStep' = tStep + 1
                   ELSE tPc' = "captured" /\ tStep' = tStep
           ELSE tPc' = "failed" /\ tErr' = o.result /\ tStep' = tStep
    /\ tWatchdog' = FALSE
    /\ UNCHANGED exceptAttempt

\* The await of the step stays unsettled.
AttemptHang ==
    /\ tPc = "pending"
    /\ MayHang(ATTEMPT_STEPS[tStep])
    /\ tPc' = "hung"
    /\ UNCHANGED <<tStep, tTrace, tWait, tWatchdog, tErr, exceptAttempt>>

\* The watchdog timer fires and rejects the race.
AttemptWatchdogFires ==
    /\ tPc = "hung"
    /\ tWatchdog
    /\ tTrace' = Append(tTrace, [step |-> ATTEMPT_STEPS[tStep],
                                 result |-> "Generation watchdog timeout",
                                 how |-> "raised"])
    /\ tPc' = "failed"
    /\ tErr' = "Generation watchdog timeout"
    /\ tWatchdog' = FALSE
    /\ UNCHANGED <<tStep, tWait, exceptAttempt>>

NextAttempt ==
    \/ AttemptBegin
    \/ AttemptSettle
    \/ AttemptHang
    \/ AttemptWatchdogFires

SpecAttempt == InitAttempt /\ [][NextAttempt]_vars

\* A step that can settle does, and a timer that is set does fire.
FairSpecAttempt == SpecAttempt /\ WF_vars(NextAttempt)

\* C21: no attempt submits its prompt (triggerGeneration) without having
\* first run the model-tier verification (ensureProModel) after entering
\* creation mode.
C21_ModelVerifiedBeforeSubmit ==
    \A k \in 1..Len(tTrace) :
        tTrace[k].step = "triggerGeneration" =>
            \E j \in 1..(k - 1), c \in 1..(k - 1) :
                /\ c < j
                /\ tTrace[c].step = "initiateImageCreation"
                /\ tTrace[j].step = "ensureProModel"
                /\ tTrace[j].result = "ok"

\* The order of the steps of an attempt.
StepOrder ==
    <<"navigateToGemini", "startNewChat", "initiateImageCreation", "typePrompt",
      "triggerGeneration", "waitForGeneration", "hoverToRevealDownload",
      "downloadImage">>

\* C22: within an attempt the steps run in the order navigate, new chat,
\* creation mode, prompt, submit, await result, hover, capture; a step
\* starts only after every step before it returned normally, and after a
\* step that raised the attempt has ended and no later step runs.
C22_StepsInOrder ==
    /\ Len(tTrace) <= Len(StepOrder)
    /\ \A k \in 1..Len(tTrace) : tTrace[k].step = StepOrder[k]
    /\ \A k \in 1..(Len(tTrace) - 1) : tTrace[k].result = "ok"
    /\ tPc \in {"ready", "pending", "hung"} =>
        /\ tStep = Len(tTrace) + 1
        /\ \A k \in 1..Len(tTrace) : tTrace[k].result = "ok"
    /\ (tTrace # <<>> /\ tTrace[Len(tTrace)].result # "ok") =>
        tPc = "failed" /\ tErr = tTrace[Len(tTrace)].result
    /\ tPc = "captured" =>
        /\ Len(tTrace) = Len(StepOrder)
        /\ tTrace[Len(tTrace)].result = "ok"

C22_Witness ==
    /\ tPc = "failed"
    /\ Len(tTrace) = 4
    /\ tTrace[4] = [step |-> "typePrompt", result |-> "SelectorError",
                     how |-> "raised"]
    /\ \A k \in 1..3 : tTrace[k].result = "ok"

\* new GenerationTimeoutError(GENERATION_TIMEOUT / 1000): the seconds the
\* error carries.
GenerationTimeoutSeconds == GENERATION_TIMEOUT \div 1000

\* C32: the result wait polls until its timeout has elapsed and then
\* raises GenerationTimeoutError carrying the seconds elapsed; it returns
\* only when a result image is visible, and raises nothing else.
C32_TimeoutAfterBudget ==
    \A k \in 1..Len(tTrace) :
        (/\ tTrace[k].step = "waitForGeneration"
         /\ tTrace[k].result # "Generation watchdog timeout") =>
            /\ tTrace[k].result \in {"ok", "GenerationTimeoutError"}
            /\ tTrace[k].result = "ok" => tWait.image = "visible"
            /\ tTrace[k].result = "GenerationTimeoutError" =>
                /\ tWait.settledAt - tWait.urlWait >= GENERATION_TIMEOUT
                /\ GenerationTimeoutSeconds * 1000 = tWait.settledAt - tWait.urlWait

\* C27: an attempt never hangs: whatever step stays unsettled, the
\* attempt is ended (captured, or failed with an error) by the watchdog.
C27_AttemptAlwaysEnds == <>(tPc \in {"captured", "failed"})

\* ---------------------------------------------------------------------
\* browser/gemini-automation: downloadImage and waitForDownloadedFile.
\* A file name is the sequence of its parts, the last one its suffix; a
\* path is the sequence of its components.  The content of a file is
\* known by the name it was downloaded under.
\* ---------------------------------------------------------------------

PARTIAL_SUFFIXES == {".crdownload", ".tmp"}

\* name.endsWith(suffix)
EndsWith(name, suffix) == Len(name) > 0 /\ name[Len(name)] = suffix

\* Only the suffix of a download in progress is looked for.
IsPartial_CrdownloadOnly(name) == EndsWith(name, ".crdownload")

IsPartial(name) == \E suffix \in PARTIAL_SUFFIXES : EndsWith(name, suffix)

Names(files) == {f.name : f \in files}

\* files.filter((name) => !beforeSet.has(name))
Created(files, before) == {f \in files : f.name \notin before}

\* created.filter(...): the new files without a partial suffix.
Finalized(files, before) == {f \in Created(files, before) : ~IsPartial(f.name)}

\* The oldest candidate.
Newest_Oldest(candidates) ==
    CHOOSE f \in candidates : \A g \in candidates : f.mtime <= g.mtime

\* candidates.sort((a, b) => b.mtimeMs - a.mtimeMs)[0]
Newest(candidates) ==
    CHOOSE f \in candidates : \A g \in candidates : g.mtime <= f.mtime

\* join(outputDir, ".nban-download-...")
tempDownloadDir(outputPath) == <<outputPath[1], <<".nban-download">>>>

\* The output path keeps what it held.
Rename_KeepsOld(held, content) == held

\* rename(downloadedPath, outputPath): what the output path holds after it.
Rename(held, content) == content

OutputPaths == {<<<<"out">>, <<"a", ".png">>>>, <<<<"out">>, <<"img", ".png">>>>}

\* What the browser may write into its download directory.
BrowserWrites ==
    {<<"img", ".png", ".crdownload">>, <<"cache", ".tmp">>, <<"extra", ".png">>}

dlCall == <<dOutput, dOutHolds>>
dlWait == <<dPolls, dSeen, dPicked>>
dlHover == <<dReveal, dImage>>

\* The steps ask for an image and raise when there is none.
hoverToRevealDownload_Strict(found) ==
    IF found = "null" THEN "SelectorError" ELSE "returned"

\* hoverToRevealDownload awaits hoverGeneratedImage and drops its answer.
hoverToRevealDownload(found) == "returned"

InitDownload ==
    /\ IdleExceptDownload
    /\ dPc = "reveal"
    /\ dOutput \in OutputPaths
    /\ dOutHolds \in {<<>>, <<"stale">>}
    /\ dTemp = "none" /\ dDir = {} /\ dBefore = {} /\ dRouted = FALSE
    /\ dClock = 0 /\ dPolls = 0 /\ dSeen = {} /\ dPicked = <<>>
    /\ dResult = <<>> /\ dErr = "none"
    /\ dReveal = "none" /\ dImage = "none"

DlRaise(err) == dPc' = "raised" /\ dErr' = err

\* hoverToRevealDownload, the step before downloadImage: it hovers the
\* latest result image when there is one.
DlReveal ==
    /\ dPc = "reveal"
    /\ \E o \in {"image", "null", "throws"} :
        IF o = "throws"
        THEN DlRaise("Error") /\ dReveal' = "throws"
        ELSE /\ dReveal' = IF o = "image" THEN "hovered" ELSE "noImage"
             /\ IF hoverToRevealDownload(o) = "returned"
                THEN dPc' = "hover" /\ dErr' = dErr
                ELSE DlRaise(hoverToRevealDownload(o))
    /\ UNCHANGED <<dlCall, dTemp, dDir, dBefore, dRouted, dClock, dlWait, dResult,
                   dImage, exceptDownload>>

\* downloadImage: hoverGeneratedImage again; no image raises SelectorError.
DlHover ==
    /\ dPc = "hover"
    /\ \E o \in {"image", "null", "throws"} :
        /\ dImage' = o
        /\ CASE o = "image"  -> dPc' = "dirs" /\ dErr' = dErr
             [] o = "null"   -> DlRaise("SelectorError")
             [] o = "throws" -> DlRaise("Error")
    /\ UNCHANGED <<dlCall, dTemp, dDir, dBefore, dRouted, dClock, dlWait, dResult,
                   dReveal, exceptDownload>>

\* ensureDir of the output directory, then of the private directory.
DlEnsureDirs ==
    /\ dPc = "dirs"
    /\ \E o \in {"ok", "outputDirFails", "tempDirFails"} :
        IF o = "ok"
        THEN /\ dTemp' = "exists"
             /\ dDir' \in {{}, {[name |-> <<"old", ".png">>, mtime |-> 0]}}
             /\ dPc' = "snapshot" /\ dErr' = dErr
        ELSE DlRaise("Error") /\ UNCHANGED <<dTemp, dDir>>
    /\ UNCHANGED <<dlCall, dBefore, dRouted, dClock, dlWait, dResult, dlHover,
                   exceptDownload>>

\* beforeFiles: readdir, an empty list if it fails.
DlSnapshot ==
    /\ dPc = "snapshot"
    /\ \E readOk \in BOOLEAN : dBefore' = IF readOk THEN Names(dDir) ELSE {}
    /\ dPc' = "cdp"
    /\ UNCHANGED <<dlCall, dTemp, dDir, dRouted, dClock, dlWait, dResult, dErr,
                   dlHover,
                   exceptDownload>>

\* createCDPSession, then Page.setDownloadBehavior, whose failure is
\* swallowed and leaves the browser downloading elsewhere.
DlRoute ==
    /\ dPc = "cdp"
    /\ \E o \in {"ok", "sendFails", "sessionFails"} :
        IF o = "sessionFails"
        THEN DlRaise("Error") /\ UNCHANGED dRouted
        ELSE dRouted' = (o = "ok") /\ dPc' = "click" /\ dErr' = dErr
    /\ UNCHANGED <<dlCall, dTemp, dDir, dBefore, dClock, dlWait, dResult,
                   dlHover,
                   exceptDownload>>

\* clickDownloadFullSize: no download control raises SelectorError.
DlClick ==
    /\ dPc = "click"
    /\ \E o \in {"clicked", "notFound", "throws"} :
        CASE o = "clicked"  -> dPc' = "polling" /\ dErr' = dErr
          [] o = "notFound" -> DlRaise("SelectorError")
          [] o = "throws"   -> DlRaise("Error")
    /\ UNCHANGED <<dlCall, dTemp, dDir, dBefore, dRouted, dClock, dlWait, dResult,
                   dlHover,
                   exceptDownload>>

\* The browser writes a file into the private directory.
DlBrowserWrites ==
    /\ dPc = "polling" /\ dRouted /\ dClock < MaxFiles
    /\ \E name \in BrowserWrites \ Names(dDir) :
        dDir' = dDir \cup {[name |-> name, mtime |-> dClock + 1]}
    /\ dClock' = dClock + 1
    /\ UNCHANGED <<dPc, dlCall, dTemp, dBefore, dRouted, dlWait, dResult, dErr,
                   dlHover,
                   exceptDownload>>

\* The browser completes a download: the file loses its partial suffix.
DlBrowserCompletes ==
    /\ dPc = "polling" /\ dRouted /\ dClock < MaxFiles
    /\ \E f \in dDir :
        /\ EndsWith(f.name, ".crdownload")
        /\ LET done == SubSeq(f.name, 1, Len(f.name) - 1) IN
            /\ done \notin Names(dDir)
            /\ dDir' = (dDir \ {f}) \cup {[name |-> done, mtime |-> dClock + 1]}
    /\ dClock' = dClock + 1
    /\ UNCHANGED <<dPc, dlCall, dTemp, dBefore, dRouted, dlWait, dResult, dErr,
                   dlHover,
                   exceptDownload>>

\* One turn of the loop of waitForDownloadedFile.
DlPoll ==
    /\ dPc = "polling"
    /\ dPolls < MaxPolls
    /\ \E readOk \in BOOLEAN, statOk \in BOOLEAN :
        LET files == IF readOk THEN dDir ELSE {}
            finalized == Finalized(files, dBefore)
        IN  /\ dSeen' = files
            /\ IF finalized = {}
               THEN /\ dPolls' = dPolls + 1
                    /\ UNCHANGED <<dPc, dPicked, dErr>>
               ELSE IF statOk
               THEN /\ dPicked' = Newest(finalized).name
                    /\ dPc' = "rename"
                    /\ UNCHANGED <<dPolls, dErr>>
               ELSE DlRaise("Error") /\ UNCHANGED <<dPolls, dPicked>>
    /\ UNCHANGED <<dlCall, dTemp, dDir, dBefore, dRouted, dClock, dResult,
                   dlHover,
                   exceptDownload>>

\* The budget of waitForDownloadedFile is used up.
DlTimeout ==
    /\ dPc = "polling"
    /\ dPolls = MaxPolls
    /\ DlRaise("DownloadError")
    /\ UNCHANGED <<dlCall, dTemp, dDir, dBefore, dRouted, dClock, dlWait, dResult,
                   dlHover,
                   exceptDownload>>

\* The rename to the output path, and the removal of the private
\* directory in the finally block around it.
DlRename ==
    /\ dPc = "rename"
    /\ LET downloadedPath == tempDownloadDir(dOutput) \o <<dPicked>> IN
       \E renameOk \in BOOLEAN :
        IF downloadedPath = dOutput
        THEN dPc' = "returned" /\ dResult' = dOutput
             /\ UNCHANGED <<dOutHolds, dErr>>
        ELSE IF renameOk
        THEN /\ dOutHolds' = Rename(dOutHolds, dPicked)
             /\ dPc' = "returned" /\ dResult' = dOutput /\ dErr' = dErr
        ELSE DlRaise("Error") /\ UNCHANGED <<dOutHolds, dResult>>
    /\ dTemp' = "removed"
    /\ dDir' = {}
    /\ UNCHANGED <<dOutput, dBefore, dRouted, dClock, dlWait, dlHover,
                   exceptDownload>>

NextDownload ==
    \/ DlReveal
    \/ DlHover
    \/ DlEnsureDirs
    \/ DlSnapshot
    \/ DlRoute
    \/ DlClick
    \/ DlBrowserWrites
    \/ DlBrowserCompletes
    \/ DlPoll
    \/ DlTimeout
    \/ DlRename

SpecDownload == InitDownload /\ [][NextDownload]_vars

\* The new files of the last listing that carry no partial suffix.
NewComplete ==
    {f \in dSeen : /\ f.name \notin dBefore
                   /\ ~EndsWith(f.name, ".crdownload")
                   /\ ~EndsWith(f.name, ".tmp")}

\* C23: when exactly one new non-partial file has appeared in the
\* download directory, downloadImage returns the output path it was
\* given, and on return that path holds the downloaded file.
C23_ReturnsGivenPath ==
    (dPc = "returned" /\ Cardinality(NewComplete) = 1) =>
        /\ dResult = dOutput
        /\ \A f \in NewComplete : dOutHolds = f.name

C23_Witness ==
    /\ dPc = "returned"
    /\ NewComplete = {[name |-> <<"img", ".png">>, mtime |-> 2]}
    /\ \E f \in dSeen : f.name = <<"cache", ".tmp">>
    /\ dOutput = <<<<"out">>, <<"a", ".png">>>>
    /\ dResult = dOutput
    /\ dOutHolds = <<"img", ".png">>

\* C24: waitForDownloadedFile never returns a file of the snapshot taken
\* before the click nor one with a partial suffix (.crdownload, .tmp): it
\* returns a complete new file of the listing, also when a partial file
\* is listed with it, and after a listing of only partial or earlier
\* files it goes on polling.
C24_SelectsCompleteNewFile ==
    /\ dPicked # <<>> =>
        /\ dPicked \in Names(NewComplete)
        /\ dPicked \notin dBefore
        /\ ~EndsWith(dPicked, ".crdownload") /\ ~EndsWith(dPicked, ".tmp")
    /\ (dPc = "polling" /\ dPolls > 0) => (NewComplete = {} /\ dPicked = <<>>)
    /\ (dPc \in {"polling", "raised"} /\ dErr # "Error") => dPicked = <<>>

C24_Witness ==
    /\ dPicked = <<"extra", ".png">>
    /\ dBefore = {<<"old", ".png">>}
    /\ \E f \in dSeen : f.name = <<"old", ".png">>
    /\ \E f, g \in dSeen :
        /\ f.name = <<"img", ".png", ".crdownload">>
        /\ g.name = dPicked
        /\ f.mtime > g.mtime

\* C25: a call of downloadImage that created its private directory
\* leaves none behind, whether it returns or raises.
C25_TempDirRemoved ==
    (dPc \in {"returned", "raised"} /\ dTemp # "none") => dTemp = "removed"

\* C26: every failure of downloadImage is a SelectorError or a
\* DownloadError.
C26_CaptureErrorsClassified ==
    (dPc = "raised" /\ dImage # "none") =>
        dErr \in {"SelectorError", "DownloadError"}

\* C35: hoverToRevealDownload does not raise for want of a result image;
\* downloadImage looks for the image again by itself, and when it finds
\* none it raises SelectorError with no directory created and no
\* download routed or started.
C35_RevealIsBestEffort ==
    /\ dReveal = "noImage" => ~(dPc = "raised" /\ dImage = "none")
    /\ dReveal \in {"hovered", "noImage"} => (dPc = "hover" \/ dImage # "none")
    /\ dImage = "null" =>
        /\ dPc = "raised" /\ dErr = "SelectorError"
        /\ dTemp = "none" /\ dDir = {} /\ ~dRouted /\ dClock = 0
    /\ dTemp # "none" => dImage = "image"

C35_Witness ==
    /\ dReveal = "noImage"
    /\ dImage = "null"
    /\ dPc = "raised" /\ dErr = "SelectorError"
    /\ dTemp = "none"

\* C36: when the listing holds several new files without a partial
\* suffix, waitForDownloadedFile returns the one modified last.
C36_PicksMostRecent ==
    dPicked # <<>> =>
        \E g \in NewComplete :
            /\ g.name = dPicked
            /\ \A f \in NewComplete : f.mtime <= g.mtime

C36_Witness ==
    /\ dPicked = <<"img", ".png">>
    /\ <<"extra", ".png">> \in Names(NewComplete)
    /\ Cardinality(NewComplete) >= 2

\* ---------------------------------------------------------------------
\* commands/generate: the browser after a failed run with --debug.
\* ---------------------------------------------------------------------

\* C28: when generate runs with --debug and fails while its browser
\* session is live, the command neither closes the browser nor finishes
\* before the user has closed it: it enters the finally block with the
\* browser marked as kept, and does not end with the browser still live.
C28_DebugKeepsBrowserOpen ==
    (/\ gDebug
     /\ gSession \in gLive
     /\ \/ gPc = "finally" /\ gExitCode = 1
        \/ gPc = "exited" /\ gExit = 1) => (gKeep /\ gPc # "exited")

\* ---------------------------------------------------------------------
\* browser/gemini-automation: ensureProModel.  The page is the set of
\* its visible, enabled buttons: the first line of the text, the height
\* on the page (y) and whether the button is within 220 x 80.
\* ---------------------------------------------------------------------

ModelLabels == {"fast", "thinking", "pro"}

Chips == [text : ModelLabels \cup {"send"}, y : 1..MaxChips, small : BOOLEAN]

\* Pages of at most MaxChips buttons, no two at the same height.
TierPages ==
    {p \in SUBSET Chips :
        /\ Cardinality(p) <= MaxChips
        /\ \A c, d \in p : c.y = d.y => c = d}

\* candidates.sort((a, b) => b.rect.y - a.rect.y)[0]
Lowest(candidates) ==
    CHOOSE c \in candidates : \A d \in candidates : d.y <= c.y

\* getCurrentModelChip: the label of the lowest small button whose text
\* is a model label, "null" when there is none.
getCurrentModelChip(page) ==
    LET candidates == {c \in page : c.text \in ModelLabels /\ c.small}
    IN  IF candidates = {} THEN "null" ELSE Lowest(candidates).text

\* clickModelChip: whether a small button with the label was found, and
\* clicked.
clickModelChip(page, label) ==
    {c \in page : c.text = label /\ c.small} # {}

\* What the page shows after the click of the chip: no menu, the menu of
\* the three tiers, or that menu with the pro option disabled.
MenuStates == {"closed", "open", "proDisabled"}

\* clickModelOptionInOpenMenu(page, "pro")
clickModelOptionInOpenMenu(menu) == menu = "open"

\* current !== "fast" returns at once.
SwitchWanted(current) == current = "fast"

\* A click that found nothing is let through.
Raises_Never(clicked) == FALSE

\* if (!opened) throw, if (!switched) throw
Raises(clicked) == ~clicked

InitTier ==
    /\ IdleExceptTier
    /\ mPc = "detect"
    /\ mPage \in TierPages
    /\ mCurrent = "none" /\ mOpened = "none" /\ mSwitched = "none"
    /\ mClicks = <<>> /\ mErr = "none"

\* getCurrentModelChip and the test of its answer.
TierDetect ==
    /\ mPc = "detect"
    /\ \E evaluateOk \in BOOLEAN :
        IF ~evaluateOk
        THEN mPc' = "raised" /\ mErr' = "Error" /\ UNCHANGED mCurrent
        ELSE /\ mCurrent' = getCurrentModelChip(mPage)
             /\ mPc' = IF SwitchWanted(getCurrentModelChip(mPage))
                       THEN "chip" ELSE "returned"
             /\ UNCHANGED mErr
    /\ UNCHANGED <<mPage, mOpened, mSwitched, mClicks, exceptTier>>

\* clickModelChip(page, "fast") on the page as it is by then.
TierClickChip ==
    /\ mPc = "chip"
    /\ \E page \in TierPages, evaluateOk \in BOOLEAN :
        /\ mPage' = page
        /\ IF ~evaluateOk
           THEN /\ mPc' = "raised" /\ mErr' = "Error" /\ mOpened' = "throws"
                /\ UNCHANGED mClicks
           ELSE IF Raises(clickModelChip(page, "fast"))
           THEN /\ mPc' = "raised" /\ mErr' = "SelectorError"
                /\ mOpened' = "false" /\ UNCHANGED mClicks
           ELSE /\ mPc' = "option" /\ mOpened' = "true" /\ UNCHANGED mErr
                /\ mClicks' = IF clickModelChip(page, "fast")
                              THEN Append(mClicks, "chip fast") ELSE mClicks
    /\ UNCHANGED <<mCurrent, mSwitched, exceptTier>>

\* clickModelOptionInOpenMenu(page, "pro") after the pause.
TierClickOption ==
    /\ mPc = "option"
    /\ \E menu \in MenuStates, evaluateOk \in BOOLEAN :
        IF ~evaluateOk
        THEN /\ mPc' = "raised" /\ mErr' = "Error" /\ mSwitched' = "throws"
             /\ UNCHANGED mClicks
        ELSE IF Raises(clickModelOptionInOpenMenu(menu))
        THEN /\ mPc' = "raised" /\ mErr' = "SelectorError"
             /\ mSwitched' = "false" /\ UNCHANGED mClicks
        ELSE /\ mPc' = "returned" /\ mSwitched' = "true" /\ UNCHANGED mErr
             /\ mClicks' = IF clickModelOptionInOpenMenu(menu)
                           THEN Append(mClicks, "option pro") ELSE mClicks
    /\ UNCHANGED <<mPage, mCurrent, mOpened, exceptTier>>

NextTier ==
    \/ TierDetect
    \/ TierClickChip
    \/ TierClickOption

SpecTier == InitTier /\ [][NextTier]_vars

\* C29: ensureProModel clicks nothing when the detected tier is pro, and
\* for any other detected tier (fast, thinking) it has, on return, opened
\* the tier selector and selected pro.
C29_SwitchesUnlessPro ==
    mPc = "returned" =>
        /\ mCurrent = "pro" => mClicks = <<>>
        /\ mCurrent \in {"fast", "thinking"} =>
            mClicks = <<"chip fast", "option pro">>

InputKinds == {"contentEditable", "valueInput", "plain"}

Texts == SeqsUpTo({"p", "x"}, MaxTextLen)

\* The function run in the page by input.evaluate: a content-editable
\* node is emptied and given the value, a node with a value property is
\* given the value, any other node is left as it is.
SetContent(kind, content, value) ==
    CASE kind = "contentEditable" -> value
      [] kind = "valueInput"      -> value
      [] OTHER                    -> content

\* Control+A then keyboard.type(prompt) on the focused input: the typed
\* text replaces the selection, or goes in front of the content when
\* nothing was selected; a node that takes no input is left as it is.
TypeOver(kind, content, value, selectAll) ==
    IF kind = "plain" THEN content
    ELSE IF selectAll THEN value
    ELSE value \o content

InitType ==
    /\ IdleExceptType
    /\ ePc = "click"
    /\ eKind \in InputKinds
    /\ eContent \in Texts
    /\ ePrompt \in Texts \ {<<>>}
    /\ eSelectAll \in BOOLEAN
    /\ eCalls = 0
    /\ eFallback = FALSE

\* input.click()
TypeClick ==
    /\ ePc = "click"
    /\ \E ok \in BOOLEAN : ePc' = IF ok THEN "evaluate" ELSE "raised"
    /\ UNCHANGED <<eKind, eContent, ePrompt, eSelectAll, eCalls, eFallback,
                   exceptType>>

\* input.evaluate(...): a rejection goes to the keyboard fallback.
TypeEvaluate ==
    /\ ePc = "evaluate"
    /\ \E ok \in BOOLEAN :
        IF ok
        THEN /\ eContent' = SetContent(eKind, eContent, ePrompt)
             /\ ePc' = "returned"
             /\ eCalls' = eCalls + 1
        ELSE ePc' = "keyboard" /\ UNCHANGED <<eContent, eCalls>>
    /\ UNCHANGED <<eKind, ePrompt, eSelectAll, eFallback, exceptType>>

\* The catch block: Control+A and keyboard.type(prompt).
TypeKeyboard ==
    /\ ePc = "keyboard"
    /\ \E ok \in BOOLEAN :
        IF ok
        THEN /\ eContent' = TypeOver(eKind, eContent, ePrompt, eSelectAll)
             /\ ePc' = "returned"
             /\ eCalls' = eCalls + 1
             /\ eFallback' = TRUE
        ELSE ePc' = "raised" /\ UNCHANGED <<eContent, eCalls, eFallback>>
    /\ UNCHANGED <<eKind, ePrompt, eSelectAll, exceptType>>

\* typePrompt is called again with the same prompt on the same input.
TypeAgain ==
    /\ ePc = "returned"
    /\ eCalls < MaxTypeCalls
    /\ ePc' = "click"
    /\ UNCHANGED <<eKind, eContent, ePrompt, eSelectAll, eCalls, eFallback,
                   exceptType>>

NextType ==
    \/ TypeClick
    \/ TypeEvaluate
    \/ TypeKeyboard
    \/ TypeAgain

SpecType == InitType /\ [][NextType]_vars

\* C33: after typePrompt has returned normally the input holds exactly
\* the caller's prompt, whatever it held before and whatever kind of
\* element was resolved, after one call as after two.
C33_ContentIsPrompt ==
    (ePc = "returned" /\ eCalls >= 1) => eContent = ePrompt

\* ---------------------------------------------------------------------
\* browser/auth-recovery: waitForWindowClose, called by commands/auth after
\* launchBrowser, getOrCreatePage and page.goto, and by the recovery of
\* commands/generate after switchToVisible, which ends with the same two
\* calls.  The user may sign in and may close the window at any moment
\* the window is open; puppeteer emits "disconnected" once, at that
\* moment, to the listeners attached then.
\* ---------------------------------------------------------------------

WaitCallers == {"auth", "generate"}

InitWait ==
    /\ IdleExceptWait
    /\ wPc = "launch"
    /\ wCaller \in WaitCallers
    /\ wConnected = FALSE
    /\ wClosedAt = "never"
    /\ wSignedIn = FALSE
    /\ wListener = FALSE
    /\ wKeepAlive = FALSE
    /\ wTicks = 0
    /\ wResolved = FALSE

waitEnv == <<wClosedAt, wSignedIn>>
waitPromise == <<wListener, wKeepAlive, wTicks, wResolved>>

\* launchBrowser({ headless: false }), directly or through relaunchBrowser.
WaitLaunch ==
    /\ wPc = "launch"
    /\ \E ok \in BOOLEAN :
        IF ok THEN wPc' = "page" /\ wConnected' = TRUE
        ELSE wPc' = "raised" /\ UNCHANGED wConnected
    /\ UNCHANGED <<wCaller, waitEnv, waitPromise, exceptWait>>

\* getOrCreatePage(session): browser.pages() rejects on a closed browser.
WaitGetPage ==
    /\ wPc = "page"
    /\ wPc' = IF wConnected THEN "goto" ELSE "raised"
    /\ UNCHANGED <<wCaller, wConnected, waitEnv, waitPromise, exceptWait>>

\* page.goto(url, { waitUntil: "domcontentloaded", timeout: 0 }): it
\* rejects on a closed browser and when the navigation fails.
WaitGoto ==
    /\ wPc = "goto"
    /\ \E ok \in BOOLEAN :
        wPc' = IF wConnected /\ ok THEN "call" ELSE "raised"
    /\ UNCHANGED <<wCaller, wConnected, waitEnv, waitPromise, exceptWait>>

\* waitForWindowClose: the executor of the promise sets the interval and
\* attaches the listener with once("disconnected", ...), and returns;
\* nothing reads browser.connected.
WaitCall ==
    /\ wPc = "call"
    /\ wKeepAlive' = TRUE
    /\ wListener' = TRUE
    /\ wPc' = "waiting"
    /\ UNCHANGED <<wCaller, wConnected, waitEnv, wTicks, wResolved, exceptWait>>

\* setInterval(() => {}, 1_000): the callback does nothing.
WaitTick ==
    /\ wPc = "waiting"
    /\ wKeepAlive
    /\ wTicks' = (wTicks + 1) % MaxTicks
    /\ UNCHANGED <<wPc, wCaller, wConnected, waitEnv, wListener, wKeepAlive,
                   wResolved, exceptWait>>

\* The user signs in in the open window.
WaitUserSignsIn ==
    /\ wConnected /\ ~wSignedIn
    /\ wPc \in {"page", "goto", "call", "waiting"}
    /\ wSignedIn' = TRUE
    /\ UNCHANGED <<wPc, wCaller, wConnected, wClosedAt, waitPromise, exceptWait>>

\* The window is closed: "disconnected" is emitted, and the listener, if
\* attached, clears the interval and resolves the promise; once() takes
\* it off.
WaitWindowClosed ==
    /\ wConnected
    /\ wPc \in {"page", "goto", "call", "waiting"}
    /\ wConnected' = FALSE
    /\ wClosedAt' = wPc
    /\ IF wListener
       THEN /\ wKeepAlive' = FALSE
            /\ wResolved' = TRUE
            /\ wListener' = FALSE
            /\ wPc' = "resolved"
       ELSE UNCHANGED <<wPc, wListener, wKeepAlive, wResolved>>
    /\ UNCHANGED <<wCaller, wSignedIn, wTicks, exceptWait>>

\* After the await: auth shows the outro, unregisters and closes the
\* session; generate unregisters and calls resumeAfterAuth.
WaitAfter ==
    /\ wPc = "resolved"
    /\ wPc' = IF wCaller = "auth" THEN "outro" ELSE "resume"
    /\ UNCHANGED <<wCaller, wConnected, waitEnv, waitPromise, exceptWait>>

\* catch: showError and process.exit(1).
WaitCatch ==
    /\ wPc = "raised"
    /\ wPc' = "exited"
    /\ UNCHANGED <<wCaller, wConnected, waitEnv, waitPromise, exceptWait>>

NextWait ==
    \/ WaitLaunch
    \/ WaitGetPage
    \/ WaitGoto
    \/ WaitCall
    \/ WaitTick
    \/ WaitUserSignsIn
    \/ WaitWindowClosed
    \/ WaitAfter
    \/ WaitCatch

SpecWait == InitWait /\ [][NextWait]_vars

\* Every timer and every handler of the event loop is run in the end.
FairSpecWait == SpecWait /\ WF_vars(NextWait)

\* C39: the promise of waitForWindowClose is not resolved while the
\* browser is connected, and from any moment at which waitForWindowClose
\* has been called and the browser is disconnected the promise is
\* resolved in the end, whether the window was closed before the call or
\* after it; the interval never resolves it.
C39_ResolvesOnDisconnect ==
    /\ [](wResolved => ~wConnected)
    /\ ((wPc = "waiting" /\ ~wConnected) ~> wResolved)

====
